---- MODULE Spec2Model ----
(***************************************************************************)
(* A model of the vanta image vault: the encrypted storage engine          *)
(* (src/src/vault.rs and its later split into src/src/vault/*.rs) and its  *)
(* in-memory tag index.                                                    *)
(*                                                                         *)
(* The repository holds two implementations of the module `vault`: the     *)
(* single file src/src/vault.rs and the directory src/src/vault/ (mod.rs,  *)
(* db.rs, crypto.rs, types.rs).  The variable `build` says which of the two *)
(* is compiled in; it never changes.  A definition whose name ends in      *)
(* _mono models vault.rs, the definition without the suffix models         *)
(* vault/mod.rs; where both files do the same, one definition serves both. *)
(***************************************************************************)
EXTENDS Integers, Sequences, FiniteSets, TLC

(***************************************************************************)
(* Bounds of the model.                                                    *)
(***************************************************************************)
MaxIds == 2
MaxClock == 1

(***************************************************************************)
(* Program constants.                                                      *)
(***************************************************************************)
MaxTagLen == 32

Ids == 1..MaxIds
Times == 0..MaxClock
Builds == {"mono", "split"}
Passwords == {"pw-A", "pw-B"}
\* the draws of rand::random::<[u8; 32]>() and rand::random::<[u8; 16]>()
MasterKeys == {<<"mk", "K1">>, <<"mk", "K2">>}
Salts == {"s1", "s2"}

\* Option<T>: None is the empty sequence, Some(x) the one-element sequence
None == << >>
Some(x) == << x >>
IsSome(o) == Len(o) = 1
Unwrap(o) == o[1]

\* HashMap / sled tree as a function with a finite domain
EmptyMap == [x \in {} |-> {}]
Put(m, k, v) == [x \in (DOMAIN m) \cup {k} |-> IF x = k THEN v ELSE m[x]]
Del(m, k) == [x \in (DOMAIN m) \ {k} |-> m[x]]

(***************************************************************************)
(* vault/types.rs: ImageVariant                                            *)
(***************************************************************************)
Variants == {"Original", "High", "Low", "Thumbnail"}

filename(variant) ==
    CASE variant = "Original" -> "original"
      [] variant = "High" -> "high"
      [] variant = "Low" -> "low"
      [] variant = "Thumbnail" -> "thumbnail"

mime_allwebp(variant, original_mime) == "image/webp"

mime(variant, original_mime) ==
    IF variant = "Original" THEN original_mime ELSE "image/webp"

(***************************************************************************)
(* vault/crypto.rs.  A byte string produced by encrypt is modelled by what *)
(* the AEAD makes of it: the key and associated data it verifies under,    *)
(* the plaintext it then yields, and the state of its bytes: "valid" as    *)
(* written, "forged" once any byte of nonce, ciphertext or tag was         *)
(* changed, "short" when fewer than the 24 bytes of a nonce are left.       *)
(***************************************************************************)
derive_key(password, salt) == <<password, salt>>

encrypt(key, data, aad) ==
    [key |-> key, aad |-> aad, pt |-> data, mac |-> "valid"]

Ok(v) == [res |-> "Ok", val |-> v]
Err(kind) == [res |-> kind]
IsOk(r) == r.res = "Ok"

\* decrypt with the associated data left out of the authentication
decrypt_keyonly(key, data, aad) ==
    IF data.mac = "short" THEN Err("Corruption")
    ELSE IF data.mac = "valid" /\ data.key = key
         THEN Ok(data.pt)
         ELSE Err("EncryptionError")

decrypt(key, data, aad) ==
    IF data.mac = "short" THEN Err("Corruption")
    ELSE IF data.mac = "valid" /\ data.key = key /\ data.aad = aad
         THEN Ok(data.pt)
         ELSE Err("EncryptionError")

(***************************************************************************)
(* vault/types.rs: ImageEntry::normalize_tag.  A string is a sequence of   *)
(* characters; the alphabet is a sample of each class the function tells   *)
(* apart.                                                                  *)
(***************************************************************************)
Chars == {"a", "b", "A", "B", "é", "É", " ", "-", "_", "!"}

to_lowercase_char(c) ==
    CASE c = "A" -> "a"
      [] c = "B" -> "b"
      [] c = "É" -> "é"
      [] OTHER -> c

\* str::to_lowercase with the characters left as they are
to_lowercase_asis(s) == s

to_lowercase(s) == [i \in 1..Len(s) |-> to_lowercase_char(s[i])]

is_whitespace(c) == c = " "
is_alphanumeric(c) == c \in {"a", "b", "A", "B", "é", "É"}

\* the bytes of a character in UTF-8
len_utf8(c) == IF c \in {"é", "É"} THEN 2 ELSE 1

\* str::len: the length in bytes
RECURSIVE len(_)
len(s) == IF Len(s) = 0 THEN 0 ELSE len_utf8(Head(s)) + len(Tail(s))

RECURSIVE trim_start(_)
trim_start(s) ==
    IF Len(s) > 0 /\ is_whitespace(s[1]) THEN trim_start(Tail(s)) ELSE s

RECURSIVE trim_end(_)
trim_end(s) ==
    IF Len(s) > 0 /\ is_whitespace(s[Len(s)])
    THEN trim_end(SubSeq(s, 1, Len(s) - 1))
    ELSE s

trim(s) == trim_end(trim_start(s))

normalize_tag(tag) ==
    LET normalized == trim(to_lowercase(tag)) IN
    IF Len(normalized) = 0 THEN Err("Corruption")
    ELSE IF len(normalized) > MaxTagLen THEN Err("Corruption")
    ELSE IF ~(\A i \in 1..Len(normalized) :
                 is_alphanumeric(normalized[i])
                 \/ normalized[i] = "-" \/ normalized[i] = "_")
    THEN Err("Corruption")
    ELSE Ok(normalized)

(***************************************************************************)
(* The state.                                                              *)
(***************************************************************************)
VARIABLES
    build,        \* which implementation of `vault` is compiled in
    db_root,      \* sled root partition: vault_salt, master_key_check
    entries_tree, \* sled tree "entries": id -> encrypted ImageEntry
    dirs,         \* vault/storage/<id>/ directories that exist
    files,        \* vault/storage/<id>/<stem>.enc : <<id, stem>> -> bytes
    salt_file,    \* vault/.salt
    metadata,     \* Vault.metadata (RAM): vault_salt, master_key_check
    data,         \* Vault.data (RAM): Option<VaultData>
    clock,        \* SystemTime::now() in seconds
    issued,       \* the ids Uuid::new_v4() has drawn so far
    given,        \* history: what store_image was given, for each image
                  \* it stored and delete_image has not removed since
    setup_password, \* history: the password of the last setup that ran
    ret,          \* the last call and what it returned
    durable,      \* the tree "entries" as of the last flush of sled: what
                  \* is left of it when the process dies
    calls,        \* the calls in flight, between their await points: call
                  \* number -> position and locals
    authenticated \* api.rs/main.rs: the sessions of the MemoryStore that
                  \* hold "authenticated" = true

diskVars == <<db_root, entries_tree, durable, dirs, files, salt_file>>
ramVars == <<metadata, data>>
vars == <<build, db_root, entries_tree, durable, dirs, files, salt_file,
          metadata, data, clock, issued, given, setup_password, ret, calls,
          authenticated>>
histVars == <<given, setup_password>>

(***************************************************************************)
(* postcard::to_stdvec / postcard::from_bytes of an ImageEntry: the fields *)
(* in declaration order, without their names.                              *)
(***************************************************************************)
to_stdvec(entry) ==
    <<entry.id, entry.original_mime, entry.original_size, entry.created_at,
      entry.variants, entry.tags>>

from_bytes(bytes) ==
    [id |-> bytes[1], original_mime |-> bytes[2], original_size |-> bytes[3],
     created_at |-> bytes[4], variants |-> bytes[5], tags |-> bytes[6]]

Range(s) == {s[i] : i \in DOMAIN s}
Contains(s, x) == \E i \in DOMAIN s : s[i] = x
Perms(S) ==
    {p \in [1..Cardinality(S) -> S] :
        \A i, j \in 1..Cardinality(S) : i # j => p[i] # p[j]}

(***************************************************************************)
(* vault/db.rs: Database                                                   *)
(***************************************************************************)
\* load_or_init_metadata taking the init branch whatever the store holds
load_or_init_metadata_init ==
    [vault_salt |-> None, master_key_check |-> None]

load_or_init_metadata ==
    [vault_salt |-> db_root.vault_salt,
     master_key_check |-> db_root.master_key_check]

save_salt_and_check(salt, check) ==
    [vault_salt |-> Some(salt), master_key_check |-> Some(check)]

\* insert_entry with the serialized entry stored as it is, under no key
insert_entry_clear(tree, key, entry) ==
    Put(tree, entry.id, encrypt(<< >>, to_stdvec(entry), <<entry.id>>))

insert_entry(tree, key, entry) ==
    Put(tree, entry.id, encrypt(key, to_stdvec(entry), <<entry.id>>))

get_entry(key, id) ==
    IF id \notin DOMAIN entries_tree THEN Err("NotFound")
    ELSE LET decrypted == decrypt(key, entries_tree[id], <<id>>) IN
         IF IsOk(decrypted) THEN Ok(from_bytes(decrypted.val)) ELSE decrypted

remove_entry(tree, id) == Del(tree, id)

\* the rows of the entries tree, each taken as if it had decrypted
entries_decrypted_all(key) ==
    {from_bytes(entries_tree[k].pt) : k \in DOMAIN entries_tree}

\* the rows of the entries tree that decrypt under `key` (the filter_map)
entries_decrypted(key) ==
    {from_bytes(decrypt(key, entries_tree[k], <<k>>).val) :
        k \in {i \in DOMAIN entries_tree :
                  IsOk(decrypt(key, entries_tree[i], <<i>>))}}

IsSortedDesc(list) ==
    \A i, j \in DOMAIN list : i < j => list[i].created_at >= list[j].created_at

\* par_sort_unstable_by on created_at: entries of one second come out in an
\* order the sort does not specify, so every sorted order is an outcome
get_all_entries(key) ==
    {p \in Perms(entries_decrypted(key)) : IsSortedDesc(p)}

(***************************************************************************)
(* vault.rs: decrypt_metadata, and the entries.get + decrypt_metadata pair *)
(* that vault.rs repeats in every operation.                               *)
(***************************************************************************)
decrypt_metadata(key, id, bytes) ==
    IF bytes.mac = "short" THEN Err("Corruption")
    ELSE IF bytes.mac = "valid" /\ bytes.key = key /\ bytes.aad = <<id>>
         THEN Ok(from_bytes(bytes.pt))
         ELSE Err("Corruption")

get_entry_mono(key, id) ==
    IF id \notin DOMAIN entries_tree THEN Err("NotFound")
    ELSE decrypt_metadata(key, id, entries_tree[id])

load_entry(key, id) ==
    IF build = "mono" THEN get_entry_mono(key, id) ELSE get_entry(key, id)

(***************************************************************************)
(* Vault: helpers                                                          *)
(***************************************************************************)
make_aad_idonly(id, variant) == <<id>>

make_aad(id, variant) == <<id, variant>>

\* the index built from a set of decrypted entries
build_tag_index(entries) ==
    [t \in UNION {Range(e.tags) : e \in entries} |->
        {e.id : e \in {x \in entries : Contains(x.tags, t)}}]

\* vault.rs build_tag_index(entries: &Tree, key): scans the tree itself
build_tag_index_mono(key) ==
    LET readable == {k \in DOMAIN entries_tree :
                        IsOk(decrypt_metadata(key, k, entries_tree[k]))}
        tags_of(k) == decrypt_metadata(key, k, entries_tree[k]).val.tags
    IN [t \in UNION {Range(tags_of(k)) : k \in readable} |->
           {k \in readable : Contains(tags_of(k), t)}]

needs_setup_unguarded(md) == TRUE

needs_setup(md) ==
    md.vault_salt = None \/ md.master_key_check = None

is_unlocked == IsSome(data)

\* what is flushed when a call on the tree `tree` returns Ok: vault.rs ends
\* its calls with a flush, vault/mod.rs and vault/db.rs have none
flush_mono(tree) == IF build = "mono" THEN tree ELSE durable

VaultData(index, key) == [tag_index |-> index, encryption_key |-> key]

(***************************************************************************)
(* Init: the state Vault::new() leaves on a fresh vault directory.         *)
(***************************************************************************)
Init ==
    /\ build \in Builds
    /\ db_root = [vault_salt |-> None, master_key_check |-> None]
    /\ entries_tree = EmptyMap
    /\ dirs = {}
    /\ files = EmptyMap
    /\ salt_file = None
    /\ metadata = [vault_salt |-> None, master_key_check |-> None]
    /\ data = None
    /\ clock = 0
    /\ issued = {}
    /\ given = EmptyMap
    /\ setup_password = None
    /\ ret = [op |-> "new", res |-> "Ok"]
    /\ durable = EmptyMap
    /\ calls = EmptyMap
    /\ authenticated = {}

(***************************************************************************)
(* Lifecycle                                                               *)
(***************************************************************************)
\* vault/mod.rs setup.  write_ok: whether fs::write(SALT_PATH) succeeds.
vault_setup(master_password, master_key, salt, write_ok) ==
    /\ build = "split"
    /\ IF ~needs_setup(metadata)
       THEN /\ ret' = [op |-> "setup", password |-> master_password,
                       res |-> "Corruption"]
            /\ UNCHANGED <<diskVars, ramVars, setup_password>>
       ELSE LET wrapping_key == derive_key(master_password, salt)
                key_check == encrypt(wrapping_key, master_key, << >>)
            IN /\ db_root' = save_salt_and_check(salt, key_check)
               /\ IF write_ok
                  THEN /\ salt_file' = Some(salt)
                       /\ metadata' = [vault_salt |-> Some(salt),
                                       master_key_check |-> Some(key_check)]
                       /\ ret' = [op |-> "setup",
                                  password |-> master_password, res |-> "Ok"]
                  ELSE /\ UNCHANGED <<salt_file, metadata>>
                       /\ ret' = [op |-> "setup",
                                  password |-> master_password, res |-> "Io"]
               /\ setup_password' = Some(master_password)
               /\ UNCHANGED <<entries_tree, durable, dirs, files, data>>
    /\ UNCHANGED <<build, calls, clock, issued, given>>

\* setup called with no session at hand
setup(master_password, master_key, salt, write_ok) ==
    vault_setup(master_password, master_key, salt, write_ok) /\ UNCHANGED authenticated

\* vault.rs setup_vault_encryption, called by vault.rs setup
setup_vault_encryption(master_key, user_password, salt, write_ok) ==
    IF ~write_ok
    THEN /\ db_root' = [db_root EXCEPT !.vault_salt = Some(salt)]
         /\ metadata' = [metadata EXCEPT !.vault_salt = Some(salt)]
         /\ UNCHANGED salt_file
         /\ ret' = [op |-> "setup", password |-> user_password, res |-> "Io"]
    ELSE LET wrapping_key == derive_key(user_password, salt)
             check_ciphertext == encrypt(wrapping_key, master_key, << >>)
         IN /\ db_root' = [vault_salt |-> Some(salt),
                           master_key_check |-> Some(check_ciphertext)]
            /\ metadata' = [vault_salt |-> Some(salt),
                            master_key_check |-> Some(check_ciphertext)]
            /\ salt_file' = Some(salt)
            /\ ret' = [op |-> "setup", password |-> user_password,
                       res |-> "Ok"]

vault_setup_mono(master_password, master_key, salt, write_ok) ==
    /\ build = "mono"
    /\ IF ~needs_setup(metadata)
       THEN /\ ret' = [op |-> "setup", password |-> master_password,
                       res |-> "Corruption"]
            /\ UNCHANGED <<db_root, salt_file, metadata, setup_password>>
       ELSE /\ setup_vault_encryption(master_key, master_password, salt,
                                      write_ok)
            /\ setup_password' = Some(master_password)
    /\ UNCHANGED <<entries_tree, durable, dirs, files, data>>
    /\ UNCHANGED <<build, calls, clock, issued, given>>

\* setup called with no session at hand
setup_mono(master_password, master_key, salt, write_ok) ==
    vault_setup_mono(master_password, master_key, salt, write_ok) /\ UNCHANGED authenticated

\* what unlock and verify_password make of a password: the master key, or
\* the error
check_password(password) ==
    IF metadata.vault_salt = None THEN Err("EncryptionError")
    ELSE IF metadata.master_key_check = None THEN Err("EncryptionError")
    ELSE decrypt(derive_key(password, Unwrap(metadata.vault_salt)),
                 Unwrap(metadata.master_key_check), << >>)

\* unlock with the comparison of the password left out
unlock_anypw(password) ==
    LET key == Unwrap(metadata.master_key_check).pt
        index == IF build = "mono" THEN build_tag_index_mono(key)
                 ELSE build_tag_index(entries_decrypted(key))
    IN /\ ~needs_setup(metadata)
       /\ data' = Some(VaultData(index, key))
       /\ ret' = [op |-> "unlock", password |-> password, res |-> "Ok"]
       /\ UNCHANGED <<build, authenticated,
                      calls, diskVars, metadata, clock, issued, histVars>>

\* unlock.  vault/mod.rs also calls get_version and migrate_v1_to_v2, which
\* vault/db.rs does not define; the store is at the current version, where
\* the migration does nothing.
vault_unlock(password) ==
    LET master_key == check_password(password) IN
    /\ IF ~IsOk(master_key)
       THEN /\ ret' = [op |-> "unlock", password |-> password,
                       res |-> master_key.res]
            /\ UNCHANGED data
       ELSE LET index == IF build = "mono"
                         THEN build_tag_index_mono(master_key.val)
                         ELSE build_tag_index(entries_decrypted(master_key.val))
            IN /\ data' = Some(VaultData(index, master_key.val))
               /\ ret' = [op |-> "unlock", password |-> password, res |-> "Ok"]
    /\ UNCHANGED <<build, calls, diskVars, metadata, clock, issued, histVars>>

\* unlock called with no session at hand
unlock(password) ==
    vault_unlock(password) /\ UNCHANGED authenticated

\* verify_password done by a call of unlock
verify_password_by_unlock(password) ==
    LET master_key == check_password(password) IN
    /\ data' = IF IsOk(master_key)
               THEN Some(VaultData(EmptyMap, master_key.val))
               ELSE None
    /\ ret' = [op |-> "verify_password", password |-> password,
               res |-> master_key.res]
    /\ UNCHANGED <<build, authenticated,
                   calls, diskVars, metadata, clock, issued, histVars>>

vault_verify_password(password) ==
    /\ ret' = [op |-> "verify_password", password |-> password,
               res |-> check_password(password).res]
    /\ UNCHANGED <<build, calls, diskVars, ramVars, clock, issued, histVars>>

\* verify_password called with no session at hand
verify_password(password) ==
    vault_verify_password(password) /\ UNCHANGED authenticated

\* lock with the state slot left as it is
lock_keep ==
    /\ ret' = [op |-> "lock", res |-> "Ok"]
    /\ UNCHANGED <<build, authenticated,
                   calls, diskVars, ramVars, clock, issued, histVars>>

vault_lock ==
    /\ data' = None
    /\ ret' = [op |-> "lock", res |-> "Ok"]
    /\ UNCHANGED <<build, calls, diskVars, metadata, clock, issued, histVars>>

\* lock called with no session at hand
lock ==
    vault_lock /\ UNCHANGED authenticated

\* shutdown: self.db.flush()? returns the error of the flush before lock()
\* is reached
shutdown(flush_ok) ==
    /\ IF flush_ok
       THEN /\ data' = None
            /\ durable' = entries_tree
            /\ ret' = [op |-> "shutdown", res |-> "Ok"]
       ELSE /\ UNCHANGED <<data, durable>>
            /\ ret' = [op |-> "shutdown", res |-> "Db"]
    /\ UNCHANGED <<build, authenticated,
                   calls, db_root, entries_tree, dirs, files, salt_file,
                   metadata, clock, issued, histVars>>

\* the process ends in order (sled flushes when the Db is dropped) and
\* main() runs Vault::new() again on the same directory
Restart ==
    /\ metadata' = load_or_init_metadata
    /\ data' = None
    /\ durable' = entries_tree
    /\ calls' = EmptyMap
    /\ authenticated' = {}
    /\ ret' = [op |-> "new", res |-> "Ok"]
    /\ UNCHANGED <<build, db_root, entries_tree, dirs, files, salt_file,
                   clock, issued, histVars>>

\* the process is killed: what sled had not flushed is lost, the calls in
\* flight end where they are; main() runs Vault::new() again
Crash ==
    /\ entries_tree' = durable
    /\ metadata' = load_or_init_metadata
    /\ data' = None
    /\ calls' = EmptyMap
    /\ authenticated' = {}
    /\ ret' = [op |-> "new", res |-> "Ok"]
    /\ UNCHANGED <<build, db_root, durable, dirs, files, salt_file,
                   clock, issued, histVars>>

\* sled's flusher thread (Config::flush_every_ms, 500 ms unless set) writes
\* the log out
Flush ==
    /\ durable # entries_tree
    /\ durable' = entries_tree
    /\ UNCHANGED <<build, authenticated,
                   calls, db_root, entries_tree, dirs, files, salt_file,
                   ramVars, clock, issued, histVars, ret>>

\* a second of wall-clock time passes
Tick ==
    /\ clock < MaxClock
    /\ clock' = clock + 1
    /\ UNCHANGED <<build, authenticated,
                   calls, diskVars, ramVars, issued, histVars, ret>>

(***************************************************************************)
(* Listing                                                                 *)
(***************************************************************************)
SortedIds(S) == CHOOSE p \in Perms(S) : \A i, j \in DOMAIN p : i < j => p[i] < p[j]

\* slice::sort_by on created_at descending: stable, so entries of one second
\* keep the order they had in `list`
sort_by_created_desc(list) ==
    LET n == Len(list)
        order == CHOOSE p \in Perms(1..n) :
                    \A i, j \in 1..n : i < j =>
                        \/ list[p[i]].created_at > list[p[j]].created_at
                        \/ /\ list[p[i]].created_at = list[p[j]].created_at
                           /\ p[i] < p[j]
    IN [i \in 1..n |-> list[order[i]]]

\* vault/mod.rs list_images: every value it may return
list_images_outcomes ==
    IF ~is_unlocked THEN {Err("EncryptionError")}
    ELSE {Ok(list) : list \in get_all_entries(Unwrap(data).encryption_key)}

\* vault.rs list_images: the tree is read in key order, then sorted
list_images_mono_outcomes ==
    IF ~is_unlocked THEN {Err("EncryptionError")}
    ELSE LET key == Unwrap(data).encryption_key
             rows == SortedIds({k \in DOMAIN entries_tree :
                        IsOk(decrypt_metadata(key, k, entries_tree[k]))})
             read_entries ==
                 [i \in DOMAIN rows |->
                     decrypt_metadata(key, rows[i], entries_tree[rows[i]]).val]
         IN {Ok(sort_by_created_desc(read_entries))}

list_images_result ==
    IF build = "mono" THEN list_images_mono_outcomes ELSE list_images_outcomes

list_images ==
    /\ \E r \in list_images_result :
          ret' = [op |-> "list_images", res |-> r.res,
                  val |-> IF IsOk(r) THEN r.val ELSE << >>]
    /\ UNCHANGED <<build, authenticated,
                   calls, diskVars, ramVars, clock, issued, histVars>>

(***************************************************************************)
(* Image operations                                                        *)
(***************************************************************************)
\* the first n files of `variants` written under vault/storage/<id>/
RECURSIVE write_variants(_, _, _, _, _)
write_variants(fs, id, key, variants, n) ==
    IF n = 0 THEN fs
    ELSE LET variant == variants[n][1]
             bytes == variants[n][2]
             aad == make_aad(id, filename(variant))
         IN Put(write_variants(fs, id, key, variants, n - 1),
                <<id, filename(variant)>>, encrypt(key, bytes, aad))

bytes_given(variants) ==
    [v \in {variants[i][1] : i \in DOMAIN variants} |->
        variants[CHOOSE i \in DOMAIN variants : variants[i][1] = v][2]]

\* store_image.  id: the draw of Uuid::new_v4(); fail_at = k > 0: the k-th
\* fs::write fails (the files before it are on disk), 0: none fails.
store_image(id, original_mime, size, variants, fail_at) ==
    /\ IF ~is_unlocked
       THEN /\ ret' = [op |-> "store_image", res |-> "EncryptionError"]
            /\ UNCHANGED <<diskVars, issued, given>>
       ELSE LET key == Unwrap(data).encryption_key
                entry == [id |-> id,
                          original_mime |-> original_mime,
                          original_size |-> size,
                          created_at |-> clock,
                          variants |-> [i \in DOMAIN variants |-> variants[i][1]],
                          tags |-> << >>]
                written == IF fail_at = 0 THEN Len(variants) ELSE fail_at - 1
            IN /\ id \notin issued
               /\ issued' = issued \cup {id}
               /\ dirs' = dirs \cup {id}
               /\ files' = write_variants(files, id, key, variants, written)
               /\ IF fail_at = 0
                  THEN /\ entries_tree' = insert_entry(entries_tree, key, entry)
                       /\ durable' = flush_mono(entries_tree')
                       /\ given' = Put(given, id,
                                       [mime |-> original_mime,
                                        bytes |-> bytes_given(variants)])
                       /\ ret' = [op |-> "store_image", res |-> "Ok",
                                  val |-> entry]
                  ELSE /\ UNCHANGED <<entries_tree, durable, given>>
                       /\ ret' = [op |-> "store_image", res |-> "Io"]
               /\ UNCHANGED <<db_root, salt_file>>
    /\ UNCHANGED <<build, authenticated,
                   calls, ramVars, clock, setup_password>>

retrieve_result_unchecked(id, variant) ==
    IF ~is_unlocked THEN [res |-> "EncryptionError", read |-> FALSE]
    ELSE LET key == Unwrap(data).encryption_key
             entry == load_entry(key, id)
             path == <<id, filename(variant)>>
         IN IF ~IsOk(entry) THEN [res |-> entry.res, read |-> FALSE]
            ELSE IF path \notin DOMAIN files
            THEN [res |-> "Io", read |-> TRUE]
            ELSE LET decrypted ==
                         decrypt(key, files[path],
                                 make_aad(id, filename(variant)))
                 IN IF ~IsOk(decrypted)
                    THEN [res |-> decrypted.res, read |-> TRUE]
                    ELSE [res |-> "Ok", read |-> TRUE,
                          val |-> <<decrypted.val,
                                    mime(variant, entry.val.original_mime)>>]

\* retrieve_image serving the file when the entry is not found
retrieve_result_blobfirst(id, variant) ==
    IF ~is_unlocked THEN [res |-> "EncryptionError", read |-> FALSE]
    ELSE LET key == Unwrap(data).encryption_key
             entry == load_entry(key, id)
             path == <<id, filename(variant)>>
         IN IF IsOk(entry) /\ ~Contains(entry.val.variants, variant)
            THEN [res |-> "NotFound", read |-> FALSE]
            ELSE IF path \notin DOMAIN files
            THEN [res |-> IF IsOk(entry) THEN "Io" ELSE entry.res,
                  read |-> TRUE]
            ELSE LET decrypted ==
                         decrypt(key, files[path],
                                 make_aad(id, filename(variant)))
                 IN IF ~IsOk(decrypted)
                    THEN [res |-> decrypted.res, read |-> TRUE]
                    ELSE [res |-> "Ok", read |-> TRUE,
                          val |-> <<decrypted.val,
                                    IF IsOk(entry)
                                    THEN mime(variant, entry.val.original_mime)
                                    ELSE "image/webp">>]

\* retrieve_image: what it returns, and whether it got as far as fs::read
retrieve_result(id, variant) ==
    IF ~is_unlocked THEN [res |-> "EncryptionError", read |-> FALSE]
    ELSE LET key == Unwrap(data).encryption_key
             entry == load_entry(key, id)
             path == <<id, filename(variant)>>
         IN IF ~IsOk(entry) THEN [res |-> entry.res, read |-> FALSE]
            ELSE IF ~Contains(entry.val.variants, variant)
            THEN [res |-> "NotFound", read |-> FALSE]
            ELSE IF path \notin DOMAIN files
            THEN [res |-> "Io", read |-> TRUE]
            ELSE LET decrypted ==
                         decrypt(key, files[path],
                                 make_aad(id, filename(variant)))
                 IN IF ~IsOk(decrypted)
                    THEN [res |-> decrypted.res, read |-> TRUE]
                    ELSE [res |-> "Ok", read |-> TRUE,
                          val |-> <<decrypted.val,
                                    mime(variant, entry.val.original_mime)>>]

retrieve_image(id, variant) ==
    /\ ret' = [op |-> "retrieve_image", id |-> id, variant |-> variant,
               out |-> retrieve_result(id, variant)]
    /\ UNCHANGED <<build, authenticated,
                   calls, diskVars, ramVars, clock, issued, histVars>>

\* the loop of delete_image with a bucket kept when its last id is removed
RECURSIVE cleanup_tags_keep_empty(_, _, _)
cleanup_tags_keep_empty(tag_index, id, tags) ==
    IF Len(tags) = 0 THEN tag_index
    ELSE LET tag == Head(tags)
             next == IF tag \in DOMAIN tag_index
                     THEN Put(tag_index, tag, tag_index[tag] \ {id})
                     ELSE tag_index
         IN cleanup_tags_keep_empty(next, id, Tail(tags))

\* the loop of delete_image over entry.tags (vault.rs has it as a helper)
RECURSIVE cleanup_tags_for_image_in_index(_, _, _)
cleanup_tags_for_image_in_index(tag_index, id, tags) ==
    IF Len(tags) = 0 THEN tag_index
    ELSE LET tag == Head(tags)
             next == IF tag \in DOMAIN tag_index
                     THEN IF tag_index[tag] \ {id} = {}
                          THEN Del(tag_index, tag)
                          ELSE Put(tag_index, tag, tag_index[tag] \ {id})
                     ELSE tag_index
         IN cleanup_tags_for_image_in_index(next, id, Tail(tags))

\* fs::remove_dir_all(vault/storage/<id>)
remove_dir_all(fs, id) == [q \in {x \in DOMAIN fs : x[1] # id} |-> fs[q]]

\* what fs::remove_dir_all reports: NotFound for a directory that is not
\* there; for one that is there, Ok or (rm_ok false) another I/O error
remove_dir_all_kind(id, rm_ok) ==
    IF id \notin dirs THEN "NotFound" ELSE IF rm_ok THEN "Ok" ELSE "Io"

\* the file removal with every error of remove_dir_all returned
delete_files_strict(id, rm_ok) ==
    IF remove_dir_all_kind(id, rm_ok) = "Ok"
    THEN /\ dirs' = dirs \ {id}
         /\ files' = remove_dir_all(files, id)
         /\ ret' = [op |-> "delete_image", id |-> id, res |-> "Ok"]
    ELSE /\ UNCHANGED <<dirs, files>>
         /\ ret' = [op |-> "delete_image", id |-> id, res |-> "Io"]

delete_files(id, rm_ok) ==
    IF remove_dir_all_kind(id, rm_ok) \in {"Ok", "NotFound"}
    THEN /\ dirs' = dirs \ {id}
         /\ files' = remove_dir_all(files, id)
         /\ ret' = [op |-> "delete_image", id |-> id, res |-> "Ok"]
    ELSE /\ UNCHANGED <<dirs, files>>
         /\ ret' = [op |-> "delete_image", id |-> id, res |-> "Io"]

\* vault/mod.rs delete_image.  rm_ok: whether remove_dir_all can remove the
\* directory when it is there.
delete_image(id, rm_ok) ==
    /\ build = "split"
    /\ IF ~is_unlocked
       THEN /\ ret' = [op |-> "delete_image", id |-> id,
                       res |-> "EncryptionError"]
            /\ UNCHANGED <<diskVars, data, given>>
       ELSE LET key == Unwrap(data).encryption_key
                entry == get_entry(key, id)
                index == Unwrap(data).tag_index
            IN /\ data' = Some(VaultData(
                      IF IsOk(entry)
                      THEN cleanup_tags_for_image_in_index(index, id,
                                                           entry.val.tags)
                      ELSE index, key))
               /\ entries_tree' = remove_entry(entries_tree, id)
               /\ UNCHANGED durable
               /\ delete_files(id, rm_ok)
               /\ given' = Del(given, id)
               /\ UNCHANGED <<db_root, salt_file>>
    /\ UNCHANGED <<build, authenticated,
                   calls, metadata, clock, issued, setup_password>>

\* vault.rs delete_image
delete_image_mono(id, rm_ok) ==
    /\ build = "mono"
    /\ IF ~is_unlocked
       THEN /\ ret' = [op |-> "delete_image", id |-> id,
                       res |-> "EncryptionError"]
            /\ UNCHANGED <<diskVars, data, given>>
       ELSE IF id \notin DOMAIN entries_tree
       THEN /\ ret' = [op |-> "delete_image", id |-> id, res |-> "NotFound"]
            /\ UNCHANGED <<diskVars, data, given>>
       ELSE LET key == Unwrap(data).encryption_key
                entry == decrypt_metadata(key, id, entries_tree[id])
                index == Unwrap(data).tag_index
            IN /\ data' = Some(VaultData(
                      IF IsOk(entry)
                      THEN cleanup_tags_for_image_in_index(index, id,
                                                           entry.val.tags)
                      ELSE index, key))
               /\ entries_tree' = remove_entry(entries_tree, id)
               /\ durable' = entries_tree'
               /\ delete_files(id, rm_ok)
               /\ given' = Del(given, id)
               /\ UNCHANGED <<db_root, salt_file>>
    /\ UNCHANGED <<build, authenticated,
                   calls, metadata, clock, issued, setup_password>>

(***************************************************************************)
(* Tag operations                                                          *)
(***************************************************************************)
bucket(tag_index, tag) ==
    IF tag \in DOMAIN tag_index THEN tag_index[tag] ELSE {}

\* Vec::remove(position of the first x)
RECURSIVE remove_first(_, _)
remove_first(list, x) ==
    IF Len(list) = 0 THEN list
    ELSE IF Head(list) = x THEN Tail(list)
    ELSE <<Head(list)>> \o remove_first(Tail(list), x)

\* the closure of tag_image with the test for a tag already carried left out
tag_locked_push(id, tag, raw) ==
    LET key == Unwrap(data).encryption_key
        index == Unwrap(data).tag_index
        entry == load_entry(key, id)
    IN IF ~IsOk(entry)
       THEN /\ ret' = [op |-> "tag_image", id |-> id, tag |-> raw,
                       res |-> entry.res]
            /\ UNCHANGED <<entries_tree, durable, data>>
       ELSE LET updated == [entry.val EXCEPT !.tags = Append(@, tag)] IN
            /\ entries_tree' = insert_entry(entries_tree, key, updated)
            /\ durable' = flush_mono(entries_tree')
            /\ data' = Some(VaultData(
                   Put(index, tag, bucket(index, tag) \cup {id}), key))
            /\ ret' = [op |-> "tag_image", id |-> id, tag |-> raw,
                       res |-> "Ok", val |-> updated]

\* the closure of tag_image with the bucket of the tag made before the entry
\* is read
tag_locked_bucketfirst(id, tag, raw) ==
    LET key == Unwrap(data).encryption_key
        index == Unwrap(data).tag_index
        entry == load_entry(key, id)
    IN IF ~IsOk(entry)
       THEN /\ ret' = [op |-> "tag_image", id |-> id, tag |-> raw,
                       res |-> entry.res]
            /\ data' = Some(VaultData(Put(index, tag, bucket(index, tag)), key))
            /\ UNCHANGED <<entries_tree, durable>>
       ELSE LET updated ==
                    [entry.val EXCEPT
                        !.tags = IF Contains(@, tag) THEN @ ELSE Append(@, tag)]
            IN /\ entries_tree' = insert_entry(entries_tree, key, updated)
               /\ durable' = flush_mono(entries_tree')
               /\ data' = Some(VaultData(
                      Put(index, tag, bucket(index, tag) \cup {id}), key))
               /\ ret' = [op |-> "tag_image", id |-> id, tag |-> raw,
                          res |-> "Ok", val |-> updated]

\* the closure of tag_image, run under the write lock on Some(data)
tag_locked(id, tag, raw) ==
    LET key == Unwrap(data).encryption_key
        index == Unwrap(data).tag_index
        entry == load_entry(key, id)
    IN IF ~IsOk(entry)
       THEN /\ ret' = [op |-> "tag_image", id |-> id, tag |-> raw,
                       res |-> entry.res]
            /\ UNCHANGED <<entries_tree, durable, data>>
       ELSE IF Contains(entry.val.tags, tag)
       THEN /\ ret' = [op |-> "tag_image", id |-> id, tag |-> raw,
                       res |-> "Ok", val |-> entry.val]
            /\ durable' = flush_mono(entries_tree)
            /\ UNCHANGED <<entries_tree, data>>
       ELSE LET updated == [entry.val EXCEPT !.tags = Append(@, tag)] IN
            /\ entries_tree' = insert_entry(entries_tree, key, updated)
            /\ durable' = flush_mono(entries_tree')
            /\ data' = Some(VaultData(
                   Put(index, tag, bucket(index, tag) \cup {id}), key))
            /\ ret' = [op |-> "tag_image", id |-> id, tag |-> raw,
                       res |-> "Ok", val |-> updated]

tag_image(id, raw) ==
    /\ build = "split"
    /\ LET tag == normalize_tag(raw) IN
       IF ~IsOk(tag)
       THEN /\ ret' = [op |-> "tag_image", id |-> id, tag |-> raw,
                       res |-> "Corruption"]
            /\ UNCHANGED <<entries_tree, durable, data>>
       ELSE IF ~is_unlocked
       THEN /\ ret' = [op |-> "tag_image", id |-> id, tag |-> raw,
                       res |-> "EncryptionError"]
            /\ UNCHANGED <<entries_tree, durable, data>>
       ELSE tag_locked(id, tag.val, raw)
    /\ UNCHANGED <<build, authenticated,
                   calls, db_root, dirs, files, salt_file, metadata, clock,
                   issued, histVars>>

tag_image_mono(id, raw) ==
    /\ build = "mono"
    /\ LET tag == normalize_tag(raw) IN
       IF ~is_unlocked
       THEN /\ ret' = [op |-> "tag_image", id |-> id, tag |-> raw,
                       res |-> "EncryptionError"]
            /\ UNCHANGED <<entries_tree, durable, data>>
       ELSE IF ~IsOk(tag)
       THEN /\ ret' = [op |-> "tag_image", id |-> id, tag |-> raw,
                       res |-> "Corruption"]
            /\ UNCHANGED <<entries_tree, durable, data>>
       ELSE tag_locked(id, tag.val, raw)
    /\ UNCHANGED <<build, authenticated,
                   calls, db_root, dirs, files, salt_file, metadata, clock,
                   issued, histVars>>

\* the closure of untag_image, run under the write lock on Some(data)
untag_locked(id, tag, raw) ==
    LET key == Unwrap(data).encryption_key
        index == Unwrap(data).tag_index
        entry == load_entry(key, id)
    IN IF ~IsOk(entry)
       THEN /\ ret' = [op |-> "untag_image", id |-> id, tag |-> raw,
                       res |-> entry.res]
            /\ UNCHANGED <<entries_tree, durable, data>>
       ELSE IF ~Contains(entry.val.tags, tag)
       THEN /\ ret' = [op |-> "untag_image", id |-> id, tag |-> raw,
                       res |-> "Ok", val |-> entry.val]
            /\ durable' = flush_mono(entries_tree)
            /\ UNCHANGED <<entries_tree, data>>
       ELSE LET updated ==
                    [entry.val EXCEPT !.tags = remove_first(@, tag)]
            IN /\ entries_tree' = insert_entry(entries_tree, key, updated)
               /\ durable' = flush_mono(entries_tree')
               /\ data' = Some(VaultData(
                      IF tag \in DOMAIN index
                      THEN IF index[tag] \ {id} = {}
                           THEN Del(index, tag)
                           ELSE Put(index, tag, index[tag] \ {id})
                      ELSE index, key))
               /\ ret' = [op |-> "untag_image", id |-> id, tag |-> raw,
                          res |-> "Ok", val |-> updated]

untag_image(id, raw) ==
    /\ build = "split"
    /\ LET tag == normalize_tag(raw) IN
       IF ~IsOk(tag)
       THEN /\ ret' = [op |-> "untag_image", id |-> id, tag |-> raw,
                       res |-> "Corruption"]
            /\ UNCHANGED <<entries_tree, durable, data>>
       ELSE IF ~is_unlocked
       THEN /\ ret' = [op |-> "untag_image", id |-> id, tag |-> raw,
                       res |-> "EncryptionError"]
            /\ UNCHANGED <<entries_tree, durable, data>>
       ELSE untag_locked(id, tag.val, raw)
    /\ UNCHANGED <<build, authenticated,
                   calls, db_root, dirs, files, salt_file, metadata, clock,
                   issued, histVars>>

untag_image_mono(id, raw) ==
    /\ build = "mono"
    /\ LET tag == normalize_tag(raw) IN
       IF ~is_unlocked
       THEN /\ ret' = [op |-> "untag_image", id |-> id, tag |-> raw,
                       res |-> "EncryptionError"]
            /\ UNCHANGED <<entries_tree, durable, data>>
       ELSE IF ~IsOk(tag)
       THEN /\ ret' = [op |-> "untag_image", id |-> id, tag |-> raw,
                       res |-> "Corruption"]
            /\ UNCHANGED <<entries_tree, durable, data>>
       ELSE untag_locked(id, tag.val, raw)
    /\ UNCHANGED <<build, authenticated,
                   calls, db_root, dirs, files, salt_file, metadata, clock,
                   issued, histVars>>

\* what rename_tag makes of one entry that carries old_tag
\* the entry update of rename_tag with the removal of the old tag left out
renamed_keepold(entry, old_tag, new_tag) ==
    [entry EXCEPT !.tags = IF Contains(entry.tags, new_tag) THEN entry.tags
                           ELSE Append(entry.tags, new_tag)]

\* the entry update of rename_tag with the new tag appended without a look
\* at the tags that are there
renamed_append(entry, old_tag, new_tag) ==
    [entry EXCEPT !.tags = Append(remove_first(entry.tags, old_tag), new_tag)]

renamed(entry, old_tag, new_tag) ==
    LET without == remove_first(entry.tags, old_tag) IN
    [entry EXCEPT !.tags = IF Contains(without, new_tag) THEN without
                           ELSE Append(without, new_tag)]

\* vault/mod.rs rename_tag, the loop over image_ids: an entry that cannot be
\* read is passed over
RECURSIVE rename_loop(_, _, _, _, _, _)
rename_loop(tree, key, image_ids, old_tag, new_tag, count) ==
    IF Len(image_ids) = 0 THEN [tree |-> tree, count |-> count, res |-> "Ok"]
    ELSE LET id == Head(image_ids)
             entry == get_entry(key, id)
         IN IF IsOk(entry) /\ Contains(entry.val.tags, old_tag)
            THEN rename_loop(
                     insert_entry(tree, key, renamed(entry.val, old_tag, new_tag)),
                     key, Tail(image_ids), old_tag, new_tag, count + 1)
            ELSE rename_loop(tree, key, Tail(image_ids), old_tag, new_tag, count)

\* vault.rs rename_tag, the loop over image_ids: the first entry that is
\* missing or cannot be read ends the call with its error
RECURSIVE rename_loop_mono(_, _, _, _, _, _)
rename_loop_mono(tree, key, image_ids, old_tag, new_tag, count) ==
    IF Len(image_ids) = 0 THEN [tree |-> tree, count |-> count, res |-> "Ok"]
    ELSE LET id == Head(image_ids)
             entry == get_entry_mono(key, id)
         IN IF ~IsOk(entry)
            THEN [tree |-> tree, count |-> count, res |-> entry.res]
            ELSE IF Contains(entry.val.tags, old_tag)
            THEN rename_loop_mono(
                     insert_entry(tree, key, renamed(entry.val, old_tag, new_tag)),
                     key, Tail(image_ids), old_tag, new_tag, count + 1)
            ELSE rename_loop_mono(tree, key, Tail(image_ids), old_tag, new_tag,
                                  count)

\* the index after rename: the old bucket is removed and merged into the new
merge_bucket_dropold(tag_index, old_tag, new_tag) ==
    IF old_tag \in DOMAIN tag_index
    THEN Put(Del(tag_index, old_tag), new_tag, tag_index[old_tag])
    ELSE tag_index

\* the index after rename with the old bucket left where it was
merge_bucket_keepold(tag_index, old_tag, new_tag) ==
    IF old_tag \in DOMAIN tag_index
    THEN Put(tag_index, new_tag,
             bucket(tag_index, new_tag) \cup tag_index[old_tag])
    ELSE tag_index

merge_bucket(tag_index, old_tag, new_tag) ==
    IF old_tag \in DOMAIN tag_index
    THEN Put(Del(tag_index, old_tag), new_tag,
             bucket(tag_index, new_tag) \cup tag_index[old_tag])
    ELSE tag_index

rename_ret(old_raw, new_raw, res, count) ==
    [op |-> "rename_tag", old |-> old_raw, new |-> new_raw, res |-> res,
     val |-> count]

\* image_ids: the order in which the HashSet of the old bucket is iterated
rename_locked(old_tag, new_tag, old_raw, new_raw, image_ids) ==
    LET key == Unwrap(data).encryption_key
        index == Unwrap(data).tag_index
    IN IF Len(image_ids) = 0
       THEN /\ ret' = rename_ret(old_raw, new_raw, "Ok", 0)
            /\ UNCHANGED <<entries_tree, durable, data>>
       ELSE LET done == IF build = "mono"
                        THEN rename_loop_mono(entries_tree, key, image_ids,
                                              old_tag, new_tag, 0)
                        ELSE rename_loop(entries_tree, key, image_ids,
                                         old_tag, new_tag, 0)
            IN /\ entries_tree' = done.tree
               /\ IF done.res = "Ok"
                  THEN /\ data' = Some(VaultData(
                              merge_bucket(index, old_tag, new_tag), key))
                       /\ durable' = flush_mono(entries_tree')
                       /\ ret' = rename_ret(old_raw, new_raw, "Ok", done.count)
                  ELSE /\ UNCHANGED <<data, durable>>
                       /\ ret' = rename_ret(old_raw, new_raw, done.res, 0)

rename_tag(old_raw, new_raw) ==
    /\ build = "split"
    /\ LET old_tag == normalize_tag(old_raw)
           new_tag == normalize_tag(new_raw)
       IN IF ~IsOk(old_tag) \/ ~IsOk(new_tag)
          THEN /\ ret' = rename_ret(old_raw, new_raw, "Corruption", 0)
               /\ UNCHANGED <<entries_tree, durable, data>>
          ELSE IF old_tag.val = new_tag.val
          THEN /\ ret' = rename_ret(old_raw, new_raw, "Ok", 0)
               /\ UNCHANGED <<entries_tree, durable, data>>
          ELSE IF ~is_unlocked
          THEN /\ ret' = rename_ret(old_raw, new_raw, "EncryptionError", 0)
               /\ UNCHANGED <<entries_tree, durable, data>>
          ELSE \E image_ids \in
                    Perms(bucket(Unwrap(data).tag_index, old_tag.val)) :
                  rename_locked(old_tag.val, new_tag.val, old_raw, new_raw,
                                image_ids)
    /\ UNCHANGED <<build, authenticated,
                   calls, db_root, dirs, files, salt_file, metadata, clock,
                   issued, histVars>>

rename_tag_mono(old_raw, new_raw) ==
    /\ build = "mono"
    /\ LET old_tag == normalize_tag(old_raw)
           new_tag == normalize_tag(new_raw)
       IN IF ~is_unlocked
          THEN /\ ret' = rename_ret(old_raw, new_raw, "EncryptionError", 0)
               /\ UNCHANGED <<entries_tree, durable, data>>
          ELSE IF ~IsOk(old_tag) \/ ~IsOk(new_tag)
          THEN /\ ret' = rename_ret(old_raw, new_raw, "Corruption", 0)
               /\ UNCHANGED <<entries_tree, durable, data>>
          ELSE IF old_tag.val = new_tag.val
          THEN /\ ret' = rename_ret(old_raw, new_raw, "Ok", 0)
               /\ UNCHANGED <<entries_tree, durable, data>>
          ELSE \E image_ids \in
                    Perms(bucket(Unwrap(data).tag_index, old_tag.val)) :
                  rename_locked(old_tag.val, new_tag.val, old_raw, new_raw,
                                image_ids)
    /\ UNCHANGED <<build, authenticated,
                   calls, db_root, dirs, files, salt_file, metadata, clock,
                   issued, histVars>>

(***************************************************************************)
(* Search                                                                  *)
(***************************************************************************)
\* sort_by_key(|s| s.len()): stable, ascending by cardinality
sort_by_len(sets) ==
    LET n == Len(sets)
        order == CHOOSE p \in Perms(1..n) :
                    \A i, j \in 1..n : i < j =>
                        \/ Cardinality(sets[p[i]]) < Cardinality(sets[p[j]])
                        \/ /\ Cardinality(sets[p[i]]) = Cardinality(sets[p[j]])
                           /\ p[i] < p[j]
    IN [i \in 1..n |-> sets[order[i]]]

RECURSIVE union_all(_, _)
union_all(res, sets) ==
    IF Len(sets) = 0 THEN [done |-> FALSE, ids |-> res]
    ELSE union_all(res \cup Head(sets), Tail(sets))

\* res.retain(|id| set.contains(id)) over the remaining sets, returning early
\* ("done") once nothing is left
RECURSIVE retain_all(_, _)
retain_all(res, sets) ==
    IF Len(sets) = 0 THEN [done |-> FALSE, ids |-> res]
    ELSE LET kept == res \cap Head(sets) IN
         IF kept = {} THEN [done |-> TRUE, ids |-> {}]
         ELSE retain_all(kept, Tail(sets))

normalized_all(tags) == [i \in DOMAIN tags |-> normalize_tag(tags[i])]

\* the entries of `candidates` that can be read, in every order the final
\* sort on created_at may leave them in
fetch_sorted(key, candidates) ==
    LET entries == {load_entry(key, id).val :
                       id \in {c \in candidates : IsOk(load_entry(key, c))}}
    IN {Ok(p) : p \in {q \in Perms(entries) : IsSortedDesc(q)}}

\* vault/mod.rs search_by_tags: every value it may return
search_by_tags_outcomes(include, exclude) ==
    IF Len(include) = 0 /\ Len(exclude) = 0 THEN list_images_outcomes
    ELSE IF ~is_unlocked THEN {Err("EncryptionError")}
    ELSE LET key == Unwrap(data).encryption_key
             index == Unwrap(data).tag_index
             inc == normalized_all(include)
             exc == normalized_all(exclude)
         IN IF \E i \in DOMAIN inc : ~IsOk(inc[i]) THEN {Err("Corruption")}
            ELSE LET sets == sort_by_len(
                                 [i \in DOMAIN inc |-> bucket(index, inc[i].val)])
                     included ==
                         IF Len(include) = 0
                         THEN [done |-> FALSE,
                               ids |-> {e.id : e \in entries_decrypted(key)}]
                         ELSE IF sets[1] = {} THEN [done |-> TRUE, ids |-> {}]
                         ELSE retain_all(sets[1], Tail(sets))
                 IN IF included.done THEN {Ok(<< >>)}
                    ELSE IF \E i \in DOMAIN exc : ~IsOk(exc[i])
                    THEN {Err("Corruption")}
                    ELSE fetch_sorted(key,
                             included.ids \ UNION {bucket(index, exc[i].val) :
                                                      i \in DOMAIN exc})

\* vault.rs search_by_tags, the loop over include_tags: the first tag that
\* is invalid or has no bucket ends the loop
RECURSIVE include_sets_mono(_, _, _)
include_sets_mono(index, include_tags, tag_sets) ==
    IF Len(include_tags) = 0 THEN [res |-> "Ok", sets |-> tag_sets]
    ELSE LET normalized == normalize_tag(Head(include_tags)) IN
         IF ~IsOk(normalized) THEN [res |-> "Corruption", sets |-> << >>]
         ELSE IF bucket(index, normalized.val) = {}
         THEN [res |-> "Empty", sets |-> << >>]
         ELSE include_sets_mono(index, Tail(include_tags),
                                Append(tag_sets, bucket(index, normalized.val)))

\* vault.rs search_by_tags after the clone of VaultData: the index and the
\* key are those of the clone, the entries tree is the live one
search_cloned_mono(key, index, include_tags, exclude_tags) ==
    LET inc == include_sets_mono(index, include_tags, << >>)
        exc == normalized_all(exclude_tags)
    IN IF inc.res = "Corruption" THEN {Err("Corruption")}
       ELSE IF inc.res = "Empty" THEN {Ok(<< >>)}
       ELSE IF \E i \in DOMAIN exc : ~IsOk(exc[i]) THEN {Err("Corruption")}
       ELSE LET tag_sets == sort_by_len(inc.sets)
                exclude_ids == UNION {bucket(index, exc[i].val) :
                                         i \in DOMAIN exc}
                candidate_ids ==
                    IF Len(tag_sets) = 0
                    THEN [done |-> FALSE, ids |-> DOMAIN entries_tree]
                    ELSE retain_all(tag_sets[1], Tail(tag_sets))
            IN IF candidate_ids.done THEN {Ok(<< >>)}
               ELSE fetch_sorted(key, candidate_ids.ids \ exclude_ids)

\* vault.rs search_by_tags: every value it may return
search_by_tags_mono_outcomes(include_tags, exclude_tags) ==
    IF ~is_unlocked THEN {Err("EncryptionError")}
    ELSE IF Len(include_tags) = 0 /\ Len(exclude_tags) = 0
    THEN list_images_mono_outcomes
    ELSE search_cloned_mono(Unwrap(data).encryption_key,
                            Unwrap(data).tag_index, include_tags, exclude_tags)

search_result(include, exclude) ==
    IF build = "mono" THEN search_by_tags_mono_outcomes(include, exclude)
    ELSE search_by_tags_outcomes(include, exclude)

search_by_tags(include, exclude) ==
    /\ \E r \in search_result(include, exclude) :
          ret' = [op |-> "search_by_tags", include |-> include,
                  exclude |-> exclude, res |-> r.res,
                  val |-> IF IsOk(r) THEN r.val ELSE << >>]
    /\ UNCHANGED <<build, authenticated,
                   calls, diskVars, ramVars, clock, issued, histVars>>

\* the order of String: byte-wise on the UTF-8 code units
code(c) ==
    CASE c = " " -> 32 [] c = "!" -> 33 [] c = "-" -> 45 [] c = "A" -> 65
      [] c = "B" -> 66 [] c = "_" -> 95 [] c = "a" -> 97 [] c = "b" -> 98
      [] c = "É" -> 201 [] c = "é" -> 233

RECURSIVE str_less(_, _)
str_less(s, t) ==
    IF Len(t) = 0 THEN FALSE
    ELSE IF Len(s) = 0 THEN TRUE
    ELSE IF code(Head(s)) # code(Head(t)) THEN code(Head(s)) < code(Head(t))
    ELSE str_less(Tail(s), Tail(t))

list_tags_result ==
    IF ~is_unlocked THEN Err("EncryptionError")
    ELSE LET keys == DOMAIN Unwrap(data).tag_index IN
         Ok(CHOOSE p \in Perms(keys) :
                \A i, j \in DOMAIN p : i < j => str_less(p[i], p[j]))

list_tags ==
    /\ ret' = [op |-> "list_tags", res |-> list_tags_result.res,
               val |-> IF IsOk(list_tags_result) THEN list_tags_result.val
                       ELSE << >>]
    /\ UNCHANGED <<build, authenticated,
                   calls, diskVars, ramVars, clock, issued, histVars>>

(***************************************************************************)
(* Someone with write access to vault/storage                              *)
(***************************************************************************)
\* the contents of two .enc files are exchanged
SwapFiles(p, q) ==
    /\ p \in DOMAIN files /\ q \in DOMAIN files /\ p # q
    /\ files' = [files EXCEPT ![p] = files[q], ![q] = files[p]]
    /\ ret' = [op |-> "tamper", res |-> "Ok"]
    /\ UNCHANGED <<build, authenticated,
                   calls, db_root, entries_tree, durable, dirs, salt_file, ramVars,
                   clock, issued, histVars>>

\* one byte of an .enc file is overwritten
OverwriteByte(p) ==
    /\ p \in DOMAIN files
    /\ files' = [files EXCEPT ![p].mac = "forged"]
    /\ ret' = [op |-> "tamper", res |-> "Ok"]
    /\ UNCHANGED <<build, authenticated,
                   calls, db_root, entries_tree, durable, dirs, salt_file, ramVars,
                   clock, issued, histVars>>

\* the directory of an image is removed from vault/storage
RemoveDir(id) ==
    /\ id \in dirs
    /\ dirs' = dirs \ {id}
    /\ files' = remove_dir_all(files, id)
    /\ ret' = [op |-> "tamper", res |-> "Ok"]
    /\ UNCHANGED <<build, authenticated,
                   calls, db_root, entries_tree, durable, salt_file, ramVars,
                   clock, issued, histVars>>

(***************************************************************************)
(* The lifecycle alone: setup (the sidecar write may fail), unlock, lock,  *)
(* verify_password, shutdown, process restart, and list_images as the      *)
(* observer.                                                               *)
(***************************************************************************)
NextLifecycle ==
    \/ \E pw \in Passwords, mk \in MasterKeys, salt \in Salts,
          write_ok \in BOOLEAN :
          \/ setup(pw, mk, salt, write_ok)
          \/ setup_mono(pw, mk, salt, write_ok)
    \/ \E pw \in Passwords : unlock(pw)
    \/ \E pw \in Passwords : verify_password(pw)
    \/ lock
    \/ \E flush_ok \in BOOLEAN : shutdown(flush_ok)
    \/ Restart
    \/ list_images

SpecLifecycle == Init /\ [][NextLifecycle]_vars

(***************************************************************************)
(* Lifecycle states, as the specification's data model names them.         *)
(***************************************************************************)
NeedsSetup == metadata.vault_salt = None /\ metadata.master_key_check = None
Locked ==
    metadata.vault_salt # None /\ metadata.master_key_check # None /\ data = None
Unlocked ==
    metadata.vault_salt # None /\ metadata.master_key_check # None /\ data # None

AcceptedPasswords == {pw \in Passwords : IsOk(check_password(pw))}

\* C1: a successful setup(pw) from NeedsSetup leaves the vault Unlocked:
\* is_unlocked() is true and list_images() returns the empty list, with no
\* unlock call in between.
C1_SetupLeavesUnlocked ==
    (ret.op = "setup" /\ ret.res = "Ok") =>
        /\ is_unlocked
        /\ list_images_result = {Ok(<< >>)}

\* C2: in a Locked vault, unlock with a password other than the one given
\* to setup returns an error and leaves the vault Locked (no state slot, hence
\* no master key and no tag index in RAM); unlock with the setup password
\* succeeds and leaves the vault Unlocked.
C2_UnlockChecksPassword ==
    [][(Locked /\ ret'.op = "unlock") =>
          IF ret'.password = Unwrap(setup_password)
          THEN ret'.res = "Ok" /\ Unlocked'
          ELSE ret'.res # "Ok" /\ Locked']_vars

\* a wrong password was refused on a Locked vault
C2_Witness ==
    /\ ret.op = "unlock" /\ ret.res = "EncryptionError"
    /\ Locked
    /\ setup_password # None /\ ret.password # Unwrap(setup_password)

\* C3: in every reachable state the vault is in exactly one of NeedsSetup,
\* Locked and Unlocked: salt and check are present together or absent
\* together, in the RAM metadata and in the metadata store, and the two agree.
C3_ExactlyOneLifecycleState ==
    /\ (metadata.vault_salt = None) <=> (metadata.master_key_check = None)
    /\ (db_root.vault_salt = None) <=> (db_root.master_key_check = None)
    /\ metadata.vault_salt = db_root.vault_salt
    /\ metadata.master_key_check = db_root.master_key_check
    /\ (NeedsSetup => data = None)

\* C4: setup called when the vault is Locked or Unlocked fails with
\* Corruption and changes nothing: salt, check, stored entries, the lock
\* state and the set of accepted passwords are as before.
C4_SetupRejectedWhenSetUp ==
    [][((Locked \/ Unlocked) /\ ret'.op = "setup") =>
          /\ ret'.res = "Corruption"
          /\ UNCHANGED <<diskVars, ramVars>>
          /\ AcceptedPasswords' = AcceptedPasswords]_vars

\* a setup was rejected on a vault that is set up
C4_Witness ==
    /\ ret.op = "setup" /\ ret.res = "Corruption"
    /\ (Locked \/ Unlocked)

(***************************************************************************)
(* Inputs of the image and tag specifications                              *)
(***************************************************************************)
\* arguments of store_image: the mime, and the `variants` list of (variant,
\* plaintext) pairs
StoreInputs ==
    { <<"image/png", << <<"Original", "ORIG">>, <<"Thumbnail", "TH">> >> >>,
      <<"image/jpeg", << <<"Thumbnail", "ORIG">> >> >>,
      <<"image/jpeg", << <<"High", "HI">>, <<"Original", "TH">> >> >> }

\* the draw of Uuid::new_v4() where the order of ids plays no part: the
\* least id not drawn so far
FreshIds == {id \in Ids \ issued : \A other \in Ids \ issued : id <= other}

OneVariant == << <<"Original", "ORIG">> >>

\* raw tags as callers pass them: one in normal form, one that needs
\* trimming and lowercasing, one that is rejected
TagInputs == {<<"a">>, <<" ", "B">>, <<"!">>}
ValidTagInputs == {t \in TagInputs : IsOk(normalize_tag(t))}

MaxQuery == 2
Lists(S, n) == UNION {[1..k -> S] : k \in 0..n}

\* a vault set up with one password and no failure
SetupOnce ==
    \/ setup("pw-A", <<"mk", "K1">>, "s1", TRUE)
    \/ setup_mono("pw-A", <<"mk", "K1">>, "s1", TRUE)

(***************************************************************************)
(* Images: store with every mime and variant set, retrieve, delete, and    *)
(* the operations that may come in between.                                *)
(***************************************************************************)
NextImages ==
    \/ SetupOnce
    \/ unlock("pw-A")
    \/ lock
    \/ \E id \in FreshIds, input \in StoreInputs :
          store_image(id, input[1], 1, input[2], 0)
    \/ \E id \in Ids, v \in Variants : retrieve_image(id, v)
    \/ \E id \in Ids : delete_image(id, TRUE) \/ delete_image_mono(id, TRUE)
    \/ \E id \in Ids :
          \/ tag_image(id, <<"a">>) \/ tag_image_mono(id, <<"a">>)
          \/ untag_image(id, <<"a">>) \/ untag_image_mono(id, <<"a">>)
    \/ rename_tag(<<"a">>, <<"B">>) \/ rename_tag_mono(<<"a">>, <<"B">>)

SpecImages == Init /\ [][NextImages]_vars

(***************************************************************************)
(* Images with someone rewriting the blob files, as long as fewer than     *)
(* MaxTamper files hold something else than store_image wrote there.       *)
(***************************************************************************)
MaxTamper == 1

Tampered(fs) ==
    {p \in DOMAIN fs : fs[p].mac # "valid" \/ fs[p].aad # make_aad(p[1], p[2])}

NextTamper ==
    \/ SetupOnce
    \/ unlock("pw-A")
    \/ \E id \in FreshIds, input \in StoreInputs :
          store_image(id, input[1], 1, input[2], 0)
    \/ \E id \in Ids, v \in Variants : retrieve_image(id, v)
    \/ \E p, q \in DOMAIN files :
          Cardinality(Tampered(files)) < MaxTamper /\ SwapFiles(p, q)
    \/ \E p \in DOMAIN files :
          Cardinality(Tampered(files)) < MaxTamper /\ OverwriteByte(p)

SpecTamper == Init /\ [][NextTamper]_vars

(***************************************************************************)
(* Tags: one call at a time of store, tag, untag, rename_tag, delete,      *)
(* search_by_tags and list_tags.                                           *)
(***************************************************************************)
NextTags ==
    \/ SetupOnce
    \/ unlock("pw-A")
    \/ lock
    \/ \E id \in FreshIds : store_image(id, "image/png", 1, OneVariant, 0)
    \/ \E id \in Ids : delete_image(id, TRUE) \/ delete_image_mono(id, TRUE)
    \/ \E id \in Ids, t \in TagInputs :
          \/ tag_image(id, t) \/ tag_image_mono(id, t)
          \/ untag_image(id, t) \/ untag_image_mono(id, t)
    \/ \E old, new \in TagInputs :
          rename_tag(old, new) \/ rename_tag_mono(old, new)
    \/ \E include \in Lists(TagInputs, 1), exclude \in Lists({<<" ", "B">>}, 1) :
          search_by_tags(include, exclude)
    \/ list_tags

SpecTags == Init /\ [][NextTags]_vars

(***************************************************************************)
(* Order of the listings: images stored in the same second and in          *)
(* different seconds.                                                      *)
(***************************************************************************)
NextOrder ==
    \/ SetupOnce
    \/ unlock("pw-A")
    \/ lock
    \/ Tick
    \/ \E id \in Ids : store_image(id, "image/png", 1, OneVariant, 0)
    \/ \E id \in Ids : delete_image(id, TRUE) \/ delete_image_mono(id, TRUE)
    \/ \E id \in Ids : tag_image(id, <<"a">>) \/ tag_image_mono(id, <<"a">>)
    \/ list_images
    \/ \E include \in Lists({<<"a">>}, 1) : search_by_tags(include, << >>)

SpecOrder == Init /\ [][NextOrder]_vars

(***************************************************************************)
(* Image contracts                                                         *)
(***************************************************************************)
PathOf(id, variant) == <<id, filename(variant)>>

\* C5: on an Unlocked vault, for every image that store_image stored and
\* that has not been deleted, and every variant v it was given, retrieve
\* returns exactly the bytes given for v, with the stored mime for Original
\* and image/webp for any other variant, whatever tag, untag, rename_tag,
\* lock/unlock and store/delete of other images happened since.
C5_StoreRetrieveRoundTrip ==
    is_unlocked =>
        \A id \in DOMAIN given : \A v \in DOMAIN given[id].bytes :
            retrieve_result(id, v) =
                [res |-> "Ok", read |-> TRUE,
                 val |-> <<given[id].bytes[v],
                           IF v = "Original" THEN given[id].mime
                           ELSE "image/webp">>]

\* a variant other than Original was retrieved from an image that was tagged
\* after it was stored, while a second image is in the vault
C5_Witness ==
    /\ ret.op = "retrieve_image" /\ ret.out.res = "Ok"
    /\ ret.variant = "Thumbnail" /\ ret.out.val = <<"ORIG", "image/webp">>
    /\ ret.id \in DOMAIN given /\ given[ret.id].mime = "image/jpeg"
    /\ is_unlocked
    /\ load_entry(Unwrap(data).encryption_key, ret.id).val.tags # << >>
    /\ Cardinality(DOMAIN given) > 1

\* C6: on an Unlocked vault, retrieve(id, v) returns NotFound when id has no
\* entry record and when the entry exists but v was not among the variants
\* given to store; no blob file is read and nothing on disk or in RAM changes.
C6_RetrieveNotFound ==
    [][(/\ is_unlocked
        /\ ret'.op = "retrieve_image"
        /\ \/ ret'.id \notin DOMAIN entries_tree
           \/ /\ ret'.id \in DOMAIN given
              /\ ret'.variant \notin DOMAIN given[ret'.id].bytes)
       => /\ ret'.out = [res |-> "NotFound", read |-> FALSE]
          /\ UNCHANGED <<diskVars, ramVars>>]_vars

\* NotFound was returned for a variant that was not stored, of an image
\* that is in the vault
C6_Witness ==
    /\ ret.op = "retrieve_image" /\ ret.out.res = "NotFound"
    /\ ret.id \in DOMAIN given
    /\ ret.variant \notin DOMAIN given[ret.id].bytes
    /\ is_unlocked

\* C7: after the contents of two .enc files are swapped, or a byte of an
\* .enc file is overwritten, retrieve on an image variant whose file changed
\* returns EncryptionError or Corruption; and in no reachable state does
\* retrieve(id, v) succeed with bytes other than those store_image was given
\* for exactly (id, v).
C7_AeadBinding ==
    /\ [](\A id \in Ids, v \in Variants :
             retrieve_result(id, v).res = "Ok" =>
                 /\ id \in DOMAIN given
                 /\ v \in DOMAIN given[id].bytes
                 /\ retrieve_result(id, v).val[1] = given[id].bytes[v])
    /\ [][ret'.op = "tamper" =>
             \A id \in DOMAIN given : \A v \in DOMAIN given[id].bytes :
                 (/\ retrieve_result(id, v).res = "Ok"
                  /\ files'[PathOf(id, v)] # files[PathOf(id, v)])
                 => retrieve_result(id, v)'.res
                        \in {"EncryptionError", "Corruption"}]_vars

\* retrieve failed on a file that got the contents of another variant of the
\* same image
C7_Witness ==
    /\ is_unlocked
    /\ ret.op = "retrieve_image" /\ ret.out.res = "EncryptionError"
    /\ ret.id \in DOMAIN given
    /\ ret.variant \in DOMAIN given[ret.id].bytes
    /\ \E w \in DOMAIN given[ret.id].bytes :
          /\ w # ret.variant
          /\ files[PathOf(ret.id, ret.variant)] =
                 encrypt(Unwrap(data).encryption_key, given[ret.id].bytes[w],
                         make_aad(ret.id, filename(w)))

(***************************************************************************)
(* Tag contracts                                                           *)
(***************************************************************************)
\* the entries partition as the holder of the master key reads it
Entries == entries_decrypted(Unwrap(data).encryption_key)
TagIndex == Unwrap(data).tag_index
TagsInUse == DOMAIN TagIndex \cup UNION {Range(e.tags) : e \in Entries}

\* C8: on an Unlocked vault, after any sequence of store, tag, untag,
\* rename_tag and delete calls made one at a time, for every entry E and every
\* tag T, T is in E.tags if and only if E.id is in TagIndex[T], and no bucket
\* contains an id that has no entry.
C8_IndexEntryEquivalence ==
    is_unlocked =>
        /\ \A e \in Entries : \A t \in TagsInUse :
              Contains(e.tags, t) <=> e.id \in bucket(TagIndex, t)
        /\ \A t \in DOMAIN TagIndex : TagIndex[t] \subseteq DOMAIN entries_tree

\* a rename_tag merged the old bucket into a bucket that already had an id
C8_Witness ==
    /\ ret.op = "rename_tag" /\ ret.res = "Ok" /\ ret.val = 1
    /\ is_unlocked
    /\ \E t \in DOMAIN TagIndex : Cardinality(TagIndex[t]) = 2

NoDuplicates(list) == \A i, j \in DOMAIN list : i # j => list[i] # list[j]
normalize(tags) == {normalize_tag(tags[i]).val : i \in DOMAIN tags}

\* C9: on an Unlocked vault, for all include lists I and exclude lists X of
\* valid tags, search_by_tags(I, X) succeeds and returns each entry E with
\* normalize(I) a subset of E.tags and normalize(X) disjoint from E.tags
\* exactly once, and no other entry; with both lists empty these are all the
\* entries, as list_images returns them.
C9_SearchSoundComplete ==
    is_unlocked =>
        LET all == Entries IN
        \A I \in Lists(ValidTagInputs, MaxQuery), X \in Lists(ValidTagInputs, 1) :
            \A r \in search_result(I, X) :
                /\ IsOk(r)
                /\ NoDuplicates(r.val)
                /\ Range(r.val) =
                       {e \in all :
                           /\ normalize(I) \subseteq Range(e.tags)
                           /\ normalize(X) \cap Range(e.tags) = {}}
                /\ (I = << >> /\ X = << >>) => r \in list_images_result

\* a search with an include and an exclude tag returned one of two entries
C9_Witness ==
    /\ ret.op = "search_by_tags" /\ ret.res = "Ok"
    /\ Len(ret.include) = 1 /\ Len(ret.exclude) = 1
    /\ Len(ret.val) = 1
    /\ is_unlocked /\ Cardinality(Entries) = 2

TiesBrokenById(list, dir) ==
    \A i, j \in DOMAIN list : i < j =>
        \/ list[i].created_at > list[j].created_at
        \/ /\ list[i].created_at = list[j].created_at
           /\ IF dir = "ascending" THEN list[i].id < list[j].id
              ELSE list[i].id > list[j].id

\* C10: the lists that search_by_tags and list_images return are ordered by
\* created_at descending with ties broken by id (in one direction, the same
\* for every call), so that entries of one second come in the same order on
\* every call.
C10_TiesBrokenById ==
    \E dir \in {"ascending", "descending"} :
        \A r \in list_images_result
                    \cup search_result(<< <<"a">> >>, << >>)
                    \cup search_result(<< >>, << <<"B">> >>) :
            IsOk(r) => TiesBrokenById(r.val, dir)

HasInvalidTag(tags) == \E i \in DOMAIN tags : ~IsOk(normalize_tag(tags[i]))

\* C11: on an Unlocked vault, search_by_tags(I, X) fails with Corruption
\* whenever some tag of I or of X is rejected by normalize_tag, whatever the
\* other tags are and whatever the buckets hold; it never returns Ok for such
\* a query.
C11_InvalidTagFailsSearch ==
    is_unlocked =>
        \A I \in Lists(TagInputs, MaxQuery), X \in Lists(TagInputs, 1) :
            (HasInvalidTag(I) \/ HasInvalidTag(X)) =>
                search_result(I, X) = {Err("Corruption")}

EntryOf(id) == load_entry(Unwrap(data).encryption_key, id).val

\* C12: on an Unlocked vault, for an existing image id and a valid tag t,
\* tag(id, t) returns Ok and leaves the entry carrying t; when the entry
\* carried t already (the second of tag; tag) it returns the entry as it was
\* and leaves the entries partition and the tag index unchanged; untag(id, t)
\* on an entry that does not carry t returns the entry as it was and leaves
\* entries and index unchanged.
C12_TagIdempotence ==
    [][\A id \in Ids, raw \in ValidTagInputs :
          (/\ is_unlocked
           /\ id \in DOMAIN entries_tree
           /\ ret'.op \in {"tag_image", "untag_image"}
           /\ ret'.id = id /\ ret'.tag = raw)
          => LET t == normalize_tag(raw).val
                 carried == Contains(EntryOf(id).tags, t)
             IN /\ ret'.res = "Ok"
                /\ ret'.val = EntryOf(id)'
                /\ ret'.op = "tag_image" => Contains(EntryOf(id)'.tags, t)
                /\ (ret'.op = "tag_image" <=> carried) =>
                      /\ ret'.val = EntryOf(id)
                      /\ UNCHANGED <<diskVars, ramVars>>]_vars

\* tag returned Ok for a tag that is not the last of the entry's tags, so
\* the entry carried it before the call
C12_Witness ==
    /\ ret.op = "tag_image" /\ ret.res = "Ok"
    /\ Len(ret.val.tags) = 2
    /\ IsOk(normalize_tag(ret.tag))
    /\ ret.val.tags[1] = normalize_tag(ret.tag).val
    /\ is_unlocked /\ EntryOf(ret.id) = ret.val

Carrying(t) == {e.id : e \in {x \in Entries : Contains(x.tags, t)}}
IdsOf(list) == {list[i].id : i \in DOMAIN list}
Found(I) == {IdsOf(r.val) : r \in search_result(I, << >>)}

\* rename_tag(old_raw, new_raw) is called on an Unlocked vault with valid
\* tags of different normal forms
IsRename(old_raw, new_raw) ==
    /\ is_unlocked
    /\ ret'.op = "rename_tag" /\ ret'.old = old_raw /\ ret'.new = new_raw
    /\ normalize_tag(old_raw).val # normalize_tag(new_raw).val

\* what the call returns and does to the entries
RenameStep(old_raw, new_raw) ==
    LET old == normalize_tag(old_raw).val
        new == normalize_tag(new_raw).val
    IN /\ ret'.res = "Ok"
       /\ ret'.val = Cardinality(Carrying(old))
       /\ Carrying(old)' = {}
       /\ Carrying(new)' = Carrying(old) \cup Carrying(new)
       /\ \A e \in Entries :
             (~Contains(e.tags, old) /\ ~Contains(e.tags, new))
                 => EntryOf(e.id)' = e
       /\ Found(<<old_raw>>) = {Carrying(old)}
       /\ Found(<<new_raw>>) = {Carrying(new)}

\* what list_tags and search_by_tags return after the call; listed_new: when
\* list_tags() is to contain the new tag
RenameSeen(listed_new) ==
    (/\ is_unlocked
     /\ ret.op = "rename_tag" /\ ret.res = "Ok"
     /\ normalize_tag(ret.old).val # normalize_tag(ret.new).val)
    => LET old == normalize_tag(ret.old).val
           new == normalize_tag(ret.new).val
       IN /\ IsOk(list_tags_result)
          /\ ~Contains(list_tags_result.val, old)
          /\ listed_new <=> Contains(list_tags_result.val, new)
          /\ search_result(<<ret.old>>, << >>) = {Ok(<< >>)}
          /\ Found(<<ret.new>>) = {Carrying(new)}

\* C13 as stated: rename_tag(old, new) with normalize(old) # normalize(new)
\* returns the number of entries that carried old; afterwards no entry carries
\* old, every entry that carried old carries new, entries that carried neither
\* are unchanged, list_tags() contains new and not old, search([old]) is
\* empty and search([new]) is the union of the former search([old]) and
\* search([new]).
C13_RenameTag ==
    /\ [][\A old_raw, new_raw \in ValidTagInputs :
             IsRename(old_raw, new_raw) => RenameStep(old_raw, new_raw)]_vars
    /\ []RenameSeen(TRUE)

\* C13 amended: the same, with list_tags() containing new exactly when some
\* entry carries new after the call, that is, when some entry carried old or
\* new before it (a rename of a tag no entry carries creates no tag).
C13_RenameTagAmended ==
    /\ [][\A old_raw, new_raw \in ValidTagInputs :
             IsRename(old_raw, new_raw) => RenameStep(old_raw, new_raw)]_vars
    /\ []RenameSeen(Carrying(normalize_tag(ret.new).val) # {})

\* a rename rewrote one entry, and the tag it was renamed to is the only tag
\* in use afterwards, carried by two entries
C13_Witness ==
    /\ ret.op = "rename_tag" /\ ret.res = "Ok" /\ ret.val = 1
    /\ is_unlocked
    /\ IsOk(normalize_tag(ret.new))
    /\ list_tags_result = Ok(<<normalize_tag(ret.new).val>>)
    /\ Cardinality(Carrying(normalize_tag(ret.new).val)) = 2

(***************************************************************************)
(* normalize_tag on its own: every string of up to MaxRaw characters, and  *)
(* strings around the length limit.                                        *)
(***************************************************************************)
MaxRaw == 2

Repeat(c, n) == [i \in 1..n |-> c]

LongInputs ==
    LET cores == {Repeat("a", MaxTagLen - 1), Repeat("A", MaxTagLen),
                  Repeat("a", MaxTagLen + 1),
                  Repeat("é", MaxTagLen \div 2),
                  Repeat("É", MaxTagLen \div 2 + 1),
                  Repeat("-", MaxTagLen) \o <<"!">>}
    IN cores \cup {<<" ">> \o c \o <<" ">> : c \in cores}

\* a caller normalizes a tag (tag_image, untag_image, rename_tag and
\* search_by_tags all start with it)
Normalize(tag) ==
    /\ ret' = [op |-> "normalize_tag", tag |-> tag, out |-> normalize_tag(tag)]
    /\ UNCHANGED <<build, authenticated,
                   calls, diskVars, ramVars, clock, issued, histVars>>

NextNormalize == \E tag \in Lists(Chars, MaxRaw) \cup LongInputs : Normalize(tag)

SpecNormalize == Init /\ [][NextNormalize]_vars

Uppercase == {"A", "B", "É"}

\* C14: when normalize_tag succeeds the result is lowercase, has no leading
\* or trailing whitespace, has length between 1 and 32 (in characters and in
\* bytes), contains only alphanumerics, '-' and '_', and is a fixpoint of
\* normalize_tag; every other input is rejected with Corruption.
C14_NormalizeTag ==
    ret.op = "normalize_tag" =>
        IF IsOk(ret.out)
        THEN LET t == ret.out.val IN
             /\ \A i \in DOMAIN t : t[i] \notin Uppercase
             /\ ~is_whitespace(t[1]) /\ ~is_whitespace(t[Len(t)])
             /\ 1 <= Len(t) /\ Len(t) <= MaxTagLen /\ len(t) <= MaxTagLen
             /\ \A i \in DOMAIN t :
                   t[i] \in {"a", "b", "é", "-", "_"}
             /\ normalize_tag(t) = ret.out
        ELSE ret.out = Err("Corruption")

\* a tag of exactly 32 bytes came out of an input in upper case with
\* whitespace around it
C14_Witness ==
    /\ ret.op = "normalize_tag" /\ IsOk(ret.out)
    /\ ret.tag = <<" ">> \o Repeat("A", MaxTagLen) \o <<" ">>
    /\ ret.out.val = Repeat("a", MaxTagLen)

\* C15: lock() called in any state leaves the in-RAM state slot empty
\* (is_unlocked() false, master key and tag index dropped) and leaves the
\* metadata store, the blob directory tree and the salt/check metadata
\* unchanged; a second lock() changes nothing.
C15_LockFrame ==
    /\ [][ret'.op = "lock" =>
             /\ data' = None /\ ~is_unlocked'
             /\ UNCHANGED <<diskVars, metadata>>]_vars
    /\ [](ret.op = "lock" =>
             /\ ENABLED lock
             /\ ~ENABLED (lock /\ ~UNCHANGED <<diskVars, ramVars>>))

\* an Unlocked vault holding an image was locked
C15_Witness ==
    /\ ret.op = "lock" /\ Locked
    /\ DOMAIN entries_tree # {} /\ DOMAIN files # {}

\* C16: verify_password(pw) returns Ok exactly when pw is the password
\* given to setup, and in both outcomes leaves the lock state as it was (the
\* same state slot, hence the same master key and tag index, or none) and
\* writes nothing to disk.  The password given to setup is the one of the
\* setup that made the vault Locked or Unlocked; before that no password is
\* accepted.
C16_VerifyPassword ==
    [][ret'.op = "verify_password" =>
          /\ ret'.res = "Ok" <=>
                /\ Locked \/ Unlocked
                /\ ret'.password = Unwrap(setup_password)
          /\ UNCHANGED <<diskVars, ramVars>>
          /\ (Unlocked => Unlocked') /\ (Locked => Locked')]_vars

\* the setup password was verified on an Unlocked vault
C16_Witness ==
    /\ ret.op = "verify_password" /\ ret.res = "Ok" /\ Unlocked
    /\ ret.password = Unwrap(setup_password)

\* C17: shutdown() invoked in any state ends with the in-RAM state slot
\* empty (no master key, no tag index), the flush of the metadata store
\* coming before the state is cleared; no outcome of shutdown leaves the
\* master key in RAM.
C17_ShutdownClearsState ==
    ret.op = "shutdown" => data = None /\ ~is_unlocked

(***************************************************************************)
(* Every operation on images and tags, callable in every lifecycle state.  *)
(***************************************************************************)
NextGuard ==
    \/ SetupOnce
    \/ unlock("pw-A")
    \/ lock
    \/ \E id \in FreshIds : store_image(id, "image/png", 1, OneVariant, 0)
    \/ \E id \in Ids, variant \in {"Original", "Thumbnail"} :
          retrieve_image(id, variant)
    \/ \E id \in Ids : delete_image(id, TRUE) \/ delete_image_mono(id, TRUE)
    \/ list_images
    \/ \E include \in Lists({<<"a">>, <<"!">>}, 1) :
          search_by_tags(include, << >>)
    \/ list_tags
    \/ \E id \in Ids, t \in {<<"a">>, <<"!">>} :
          \/ tag_image(id, t) \/ tag_image_mono(id, t)
          \/ untag_image(id, t) \/ untag_image_mono(id, t)
    \/ \E old, new \in {<<"a">>, <<" ", "B">>} :
          rename_tag(old, new) \/ rename_tag_mono(old, new)

SpecGuard == Init /\ [][NextGuard]_vars

\* the Ok or the error of the last call
Outcome(r) == IF "res" \in DOMAIN r THEN r.res ELSE r.out.res

Operations ==
    {"store_image", "retrieve_image", "delete_image", "list_images",
     "search_by_tags", "list_tags", "tag_image", "untag_image", "rename_tag"}

\* C18: each of store, retrieve, delete, list_images, search_by_tags,
\* list_tags, tag, untag and rename_tag, called while the vault is not
\* Unlocked, returns an error and changes neither the entries partition, nor
\* the blob directory tree, nor any in-RAM state.
C18_LockedOperationsFail ==
    [][(~is_unlocked /\ ret'.op \in Operations) =>
          /\ Outcome(ret') # "Ok"
          /\ UNCHANGED <<entries_tree, durable, dirs, files, ramVars>>]_vars

(***************************************************************************)
(* Deleting: tagged images, a removal of the directory that may fail, and  *)
(* directories that went missing.                                          *)
(***************************************************************************)
NextDelete ==
    \/ SetupOnce
    \/ unlock("pw-A")
    \/ \E id \in FreshIds : store_image(id, "image/png", 1, OneVariant, 0)
    \/ \E id \in Ids, t \in {<<"a">>, <<" ", "B">>} :
          tag_image(id, t) \/ tag_image_mono(id, t)
    \/ \E id \in Ids, rm_ok \in BOOLEAN :
          delete_image(id, rm_ok) \/ delete_image_mono(id, rm_ok)
    \/ \E id \in Ids : RemoveDir(id)

SpecDelete == Init /\ [][NextDelete]_vars

\* delete_image(id) is called on an Unlocked vault for an image that has a
\* readable entry
IsDelete(id) ==
    /\ is_unlocked
    /\ IsOk(load_entry(Unwrap(data).encryption_key, id))
    /\ ret'.op = "delete_image" /\ ret'.id = id

\* what a successful delete(id) did to the stores
DeleteStep(id) ==
    /\ DOMAIN entries_tree' = DOMAIN entries_tree \ {id}
    /\ \A other \in DOMAIN entries_tree \ {id} :
          entries_tree'[other] = entries_tree[other]
    /\ \A t \in DOMAIN TagIndex :
          bucket(TagIndex', t) = TagIndex[t] \ {id}
    /\ DOMAIN TagIndex' = {t \in DOMAIN TagIndex : TagIndex[t] \ {id} # {}}
    /\ dirs' = dirs \ {id}
    /\ DOMAIN files' = {q \in DOMAIN files : q[1] # id}
    /\ \A q \in DOMAIN files' : files'[q] = files[q]

\* what the vault answers after a successful delete(id)
DeleteSeen ==
    (is_unlocked /\ ret.op = "delete_image" /\ ret.res = "Ok") =>
        /\ ret.id \notin DOMAIN entries_tree
        /\ \A t \in DOMAIN TagIndex : ret.id \notin TagIndex[t] /\ TagIndex[t] # {}
        /\ ret.id \notin dirs
        /\ \A r \in list_images_result : IsOk(r) /\ ret.id \notin IdsOf(r.val)
        /\ \A include \in Lists({<<"a">>, <<" ", "B">>}, MaxQuery) :
              \A r \in search_result(include, << >>) :
                  IsOk(r) /\ ret.id \notin IdsOf(r.val)
        /\ \A variant \in Variants :
              retrieve_result(ret.id, variant).res = "NotFound"

\* C19: after delete(id) returns Ok for an existing image, the entries
\* partition has no record for id, id is in no bucket of the tag index and
\* the buckets it emptied are removed, the directory of id is gone,
\* list_images and search_by_tags no longer return it and retrieve(id, v)
\* returns NotFound for every v; all other entries and their index
\* membership are unchanged.  A missing directory does not make delete fail.
C19_DeleteImage ==
    /\ [][\A id \in Ids :
            IsDelete(id) =>
                /\ ret'.res = "Ok" => DeleteStep(id)
                /\ id \notin dirs => ret'.res = "Ok"]_vars
    /\ []DeleteSeen

\* a tagged image was deleted while another image carries the same tag
C19_Witness ==
    /\ ret.op = "delete_image" /\ ret.res = "Ok" /\ is_unlocked
    /\ DOMAIN entries_tree # {} /\ dirs # {}
    /\ \E t \in DOMAIN TagIndex : TagIndex[t] # {}

(***************************************************************************)
(* Orphans: a store interrupted between its writes, and a delete whose     *)
(* removal of the directory fails.                                         *)
(***************************************************************************)
TwoVariants == << <<"Original", "ORIG">>, <<"Thumbnail", "TH">> >>

NextOrphans ==
    \/ SetupOnce
    \/ unlock("pw-A")
    \/ \E id \in FreshIds, fail_at \in {0, 2} :
          store_image(id, "image/png", 1, TwoVariants, fail_at)
    \/ \E id \in Ids : tag_image(id, <<"a">>) \/ tag_image_mono(id, <<"a">>)
    \/ \E id \in Ids, rm_ok \in BOOLEAN :
          delete_image(id, rm_ok) \/ delete_image_mono(id, rm_ok)
    \/ \E id \in Ids, variant \in {"Original", "Thumbnail"} :
          retrieve_image(id, variant)
    \/ list_images
    \/ \E include \in Lists({<<"a">>}, 1) : search_by_tags(include, << >>)

SpecOrphans == Init /\ [][NextOrphans]_vars

\* the ids that have blob files and no record in the entries partition
Orphans == {p[1] : p \in DOMAIN files} \ DOMAIN entries_tree

\* C20: orphan blobs are never served: retrieve(id, v) returns bytes only if
\* the entries partition holds a decryptable record for id that lists v; blob
\* files without an entry record (left by an interrupted store, or by a
\* delete whose directory removal failed) always yield NotFound and are never
\* listed by list_images or search_by_tags.
C20_OrphansNotServed ==
    is_unlocked =>
        /\ \A id \in Ids, variant \in Variants :
              IsOk(retrieve_result(id, variant)) =>
                  /\ id \in DOMAIN entries_tree
                  /\ IsOk(load_entry(Unwrap(data).encryption_key, id))
                  /\ Contains(load_entry(Unwrap(data).encryption_key, id).val.variants, variant)
        /\ \A id \in Orphans :
              /\ \A variant \in Variants :
                    retrieve_result(id, variant).res = "NotFound"
              /\ \A r \in list_images_result : IsOk(r) => id \notin IdsOf(r.val)
              /\ \A include \in Lists({<<"a">>}, MaxQuery) :
                    \A r \in search_result(include, << >>) :
                        IsOk(r) => id \notin IdsOf(r.val)

\* retrieve was refused for a blob file that is on disk without an entry,
\* while another image is stored and listed
C20_Witness ==
    /\ is_unlocked
    /\ ret.op = "retrieve_image" /\ ret.out.res = "NotFound"
    /\ ret.id \in Orphans
    /\ PathOf(ret.id, ret.variant) \in DOMAIN files
    /\ DOMAIN entries_tree # {}

(***************************************************************************)
(* Calls in flight.  store_image, retrieve_image and delete_image are      *)
(* async and take &self: the handlers of api.rs hold the outer lock for    *)
(* reading, so that between two awaits of one call the steps of other      *)
(* calls run.  Each action below is the code between two awaits, or one    *)
(* critical section of the RwLock on Vault.data.                           *)
(***************************************************************************)
MaxCalls == 2

Calls == 1..MaxCalls

\* the number a new call gets: the least one not in use
FreeCalls ==
    {c \in Calls \ DOMAIN calls : \A o \in Calls \ DOMAIN calls : c <= o}

\* the write lock with no exclusion
WriteLocked_never == FALSE

\* some call is inside the write lock of Vault.data
WriteLocked == \E c \in DOMAIN calls : calls[c].pc = "locked"

At(c, op, pc) == c \in DOMAIN calls /\ calls[c].op = op /\ calls[c].pc = pc

\* store_image up to its first await: the lock check, the draw of the id and
\* the copy of the key (vault/mod.rs also builds the entry here)
store_begin(c, id, original_mime, size, variants) ==
    /\ c \notin DOMAIN calls /\ ~WriteLocked /\ id \notin issued
    /\ IF ~is_unlocked
       THEN /\ ret' = [op |-> "store_image", res |-> "EncryptionError"]
            /\ UNCHANGED <<calls, issued>>
       ELSE /\ calls' = Put(calls, c,
                   [op |-> "store_image", pc |-> "mkdir", id |-> id,
                    key |-> Unwrap(data).encryption_key,
                    original_mime |-> original_mime, size |-> size,
                    created_at |-> clock, variants |-> variants,
                    written |-> 0])
            /\ issued' = issued \cup {id}
            /\ UNCHANGED ret
    /\ UNCHANGED <<build, authenticated, diskVars, ramVars, clock, histVars>>

\* fs::create_dir_all(vault/storage/<id>)
store_mkdir(c) ==
    /\ At(c, "store_image", "mkdir")
    /\ dirs' = dirs \cup {calls[c].id}
    /\ calls' = [calls EXCEPT ![c].pc = "write"]
    /\ UNCHANGED <<build, authenticated,
                   db_root, entries_tree, durable, files, salt_file,
                   ramVars, clock, issued, histVars, ret>>

\* one turn of the loop over the variants: encrypt with the copy of the key
\* and fs::write; write_ok false: the write fails and store_image returns
store_write(c, write_ok) ==
    /\ At(c, "store_image", "write")
    /\ LET call == calls[c]
           k == call.written + 1
       IN IF write_ok
          THEN /\ files' = write_variants(files, call.id, call.key,
                                          call.variants, k)
               /\ calls' = [calls EXCEPT
                              ![c].written = k,
                              ![c].pc = IF k = Len(call.variants)
                                        THEN "insert" ELSE "write"]
               /\ UNCHANGED ret
          ELSE /\ calls' = Del(calls, c)
               /\ ret' = [op |-> "store_image", res |-> "Io"]
               /\ UNCHANGED files
    /\ UNCHANGED <<build, authenticated,
                   db_root, entries_tree, durable, dirs, salt_file,
                   ramVars, clock, issued, histVars>>

\* the end of store_image: the entry is inserted (vault.rs builds it here
\* and flushes)
store_insert(c) ==
    /\ At(c, "store_image", "insert")
    /\ LET call == calls[c]
           entry == [id |-> call.id,
                     original_mime |-> call.original_mime,
                     original_size |-> call.size,
                     created_at |-> IF build = "mono" THEN clock
                                    ELSE call.created_at,
                     variants |-> [i \in DOMAIN call.variants |->
                                      call.variants[i][1]],
                     tags |-> << >>]
       IN /\ entries_tree' = insert_entry(entries_tree, call.key, entry)
          /\ durable' = flush_mono(entries_tree')
          /\ given' = Put(given, call.id,
                          [mime |-> call.original_mime,
                           bytes |-> bytes_given(call.variants)])
          /\ ret' = [op |-> "store_image", res |-> "Ok", val |-> entry]
    /\ calls' = Del(calls, c)
    /\ UNCHANGED <<build, authenticated,
                   db_root, dirs, files, salt_file, ramVars, clock,
                   issued, setup_password>>

\* retrieve_image up to fs::read: the copy of the key, the entry and the
\* test of the variant
retrieve_begin(c, id, variant) ==
    /\ c \notin DOMAIN calls /\ ~WriteLocked
    /\ LET key == Unwrap(data).encryption_key
           entry == load_entry(key, id)
           failed(kind) ==
               /\ ret' = [op |-> "retrieve_image", id |-> id,
                          variant |-> variant,
                          out |-> [res |-> kind, read |-> FALSE]]
               /\ UNCHANGED calls
       IN IF ~is_unlocked THEN failed("EncryptionError")
          ELSE IF ~IsOk(entry) THEN failed(entry.res)
          ELSE IF ~Contains(entry.val.variants, variant)
          THEN failed("NotFound")
          ELSE /\ calls' = Put(calls, c,
                      [op |-> "retrieve_image", pc |-> "read", id |-> id,
                       variant |-> variant, key |-> key,
                       original_mime |-> entry.val.original_mime])
               /\ UNCHANGED ret
    /\ UNCHANGED <<build, authenticated,
                   diskVars, ramVars, clock, issued, histVars>>

\* retrieve_image from fs::read on
retrieve_read(c) ==
    /\ At(c, "retrieve_image", "read")
    /\ LET call == calls[c]
           path == <<call.id, filename(call.variant)>>
           decrypted == decrypt(call.key, files[path],
                                make_aad(call.id, filename(call.variant)))
       IN ret' = [op |-> "retrieve_image", id |-> call.id,
                  variant |-> call.variant,
                  out |-> IF path \notin DOMAIN files
                          THEN [res |-> "Io", read |-> TRUE]
                          ELSE IF ~IsOk(decrypted)
                          THEN [res |-> decrypted.res, read |-> TRUE]
                          ELSE [res |-> "Ok", read |-> TRUE,
                                val |-> <<decrypted.val,
                                          mime(call.variant,
                                               call.original_mime)>>]]
    /\ calls' = Del(calls, c)
    /\ UNCHANGED <<build, authenticated,
                   diskVars, ramVars, clock, issued, histVars>>

\* delete_image up to fs::remove_dir_all: under the write lock the index is
\* cleaned and the entry removed (vault.rs: not found for an absent entry,
\* and a flush)
delete_begin(c, id) ==
    /\ c \notin DOMAIN calls /\ ~WriteLocked
    /\ LET failed(kind) ==
               /\ ret' = [op |-> "delete_image", id |-> id, res |-> kind]
               /\ UNCHANGED <<entries_tree, durable, data, given, calls>>
       IN IF ~is_unlocked THEN failed("EncryptionError")
          ELSE IF build = "mono" /\ id \notin DOMAIN entries_tree
          THEN failed("NotFound")
          ELSE LET key == Unwrap(data).encryption_key
                   entry == load_entry(key, id)
                   index == Unwrap(data).tag_index
               IN /\ data' = Some(VaultData(
                         IF IsOk(entry)
                         THEN cleanup_tags_for_image_in_index(
                                  index, id, entry.val.tags)
                         ELSE index, key))
                  /\ entries_tree' = remove_entry(entries_tree, id)
                  /\ durable' = flush_mono(entries_tree')
                  /\ given' = Del(given, id)
                  /\ calls' = Put(calls, c,
                         [op |-> "delete_image", pc |-> "rm", id |-> id])
                  /\ UNCHANGED ret
    /\ UNCHANGED <<build, authenticated,
                   db_root, dirs, files, salt_file, metadata, clock,
                   issued, setup_password>>

\* fs::remove_dir_all unlinks one file of the directory
delete_unlink(c, path) ==
    /\ At(c, "delete_image", "rm")
    /\ path \in DOMAIN files /\ path[1] = calls[c].id
    /\ files' = [q \in DOMAIN files \ {path} |-> files[q]]
    /\ UNCHANGED <<build, authenticated,
                   calls, db_root, entries_tree, durable, dirs,
                   salt_file, ramVars, clock, issued, histVars, ret>>

\* fs::remove_dir_all ends: the emptied directory is removed, a directory
\* that is not there is passed over; rm_ok false: it ends with another error
delete_rmdir(c, rm_ok) ==
    /\ At(c, "delete_image", "rm")
    /\ LET id == calls[c].id IN
       IF rm_ok \/ id \notin dirs
       THEN /\ \A path \in DOMAIN files : path[1] # id
            /\ dirs' = dirs \ {id}
            /\ ret' = [op |-> "delete_image", id |-> id, res |-> "Ok"]
       ELSE /\ UNCHANGED dirs
            /\ ret' = [op |-> "delete_image", id |-> id, res |-> "Io"]
    /\ calls' = Del(calls, c)
    /\ UNCHANGED <<build, authenticated,
                   db_root, entries_tree, durable, files, salt_file,
                   ramVars, clock, issued, histVars>>

\* the caller drops the future of an async call at an await
Cancel(c) ==
    /\ c \in DOMAIN calls
    /\ calls[c].op \in {"store_image", "retrieve_image", "delete_image"}
    /\ calls' = Del(calls, c)
    /\ ret' = [op |-> "cancel", res |-> "Ok"]
    /\ UNCHANGED <<build, authenticated,
                   diskVars, ramVars, clock, issued, histVars>>

(***************************************************************************)
(* Store and delete step by step, with tag edits in between, calls         *)
(* dropped by their callers, sled's flusher, and the process killed.       *)
(***************************************************************************)
\* the ids a caller can name: those Uuid::new_v4() has drawn, but for the
\* ones drawn by a store_image that has not returned yet
KnownIds ==
    issued \ {calls[c].id : c \in {x \in DOMAIN calls :
                                       calls[x].op = "store_image"}}

NextCrash ==
    \/ SetupOnce
    \/ unlock("pw-A")
    \/ \E c \in FreeCalls, id \in FreshIds :
          store_begin(c, id, "image/png", 1, TwoVariants)
    \/ \E c \in Calls : store_mkdir(c) \/ store_write(c, TRUE) \/ store_insert(c)
    \/ \E c \in FreeCalls, id \in KnownIds : delete_begin(c, id)
    \/ \E c \in Calls :
          \/ \E path \in DOMAIN files : delete_unlink(c, path)
          \/ delete_rmdir(c, TRUE)
    \/ \E id \in KnownIds :
          \/ tag_image(id, <<"a">>) \/ tag_image_mono(id, <<"a">>)
          \/ untag_image(id, <<"a">>) \/ untag_image_mono(id, <<"a">>)
    \/ rename_tag(<<"a">>, <<"B">>) \/ rename_tag_mono(<<"a">>, <<"B">>)
    \/ \E c \in Calls : Cancel(c)
    \/ Flush
    \/ Crash

SpecCrash == Init /\ [][NextCrash]_vars

\* the master key of the vault, as setup sealed it in the check blob
MasterKey == Unwrap(db_root.master_key_check).pt

\* the variants the record of id lists
ListedVariants(id) ==
    LET decrypted == decrypt(MasterKey, entries_tree[id], <<id>>) IN
    IF IsOk(decrypted) THEN Range(from_bytes(decrypted.val).variants) ELSE {}

\* C21: at every point of any interleaving of store, delete, tag, untag and
\* rename_tag, and after a crash or a cancellation at any step, every entry
\* record in the entries partition has a blob file on disk for each variant
\* it lists.
C21_EntryHasBlobs ==
    \A id \in DOMAIN entries_tree :
        \A variant \in ListedVariants(id) : PathOf(id, variant) \in DOMAIN files

(***************************************************************************)
(* tag_image and untag_image step by step: the write lock is taken and the *)
(* entry read, the entry is written, the index is updated and the lock     *)
(* released.  A call that has returned stays in `calls` at "done" with     *)
(* what it returned.                                                       *)
(***************************************************************************)
returned(c, call, res) ==
    /\ calls' = Put(calls, c, [call EXCEPT !.pc = "done", !.res = res])
    /\ ret' = [op |-> call.op, id |-> call.id, tag |-> call.raw, res |-> res]

\* op is "tag_image" or "untag_image"
tag_enter(c, op, id, raw) ==
    /\ c \notin DOMAIN calls /\ ~WriteLocked
    /\ LET tag == normalize_tag(raw)
           call == [op |-> op, pc |-> "locked", step |-> "read", id |-> id,
                    raw |-> raw, tag |-> tag, res |-> "",
                    entry |-> Err("NotFound")]
       IN IF ~IsOk(tag) /\ (build = "split" \/ is_unlocked)
          THEN returned(c, call, "Corruption")
          ELSE IF ~is_unlocked
          THEN returned(c, call, "EncryptionError")
          ELSE /\ calls' = Put(calls, c,
                      [call EXCEPT
                          !.tag = tag.val,
                          !.entry = load_entry(Unwrap(data).encryption_key,
                                               id)])
               /\ UNCHANGED ret
    /\ UNCHANGED <<build, authenticated,
                   diskVars, ramVars, clock, issued, histVars>>

\* the entry is changed and inserted, or the call returns: with the error
\* of the read, or with the entry as it is when there is nothing to change
tag_write(c) ==
    /\ c \in DOMAIN calls /\ calls[c].pc = "locked" /\ calls[c].step = "read"
    /\ LET call == calls[c]
           carried == Contains(call.entry.val.tags, call.tag)
           updated ==
               [call.entry.val EXCEPT
                   !.tags = IF call.op = "tag_image"
                            THEN Append(@, call.tag)
                            ELSE remove_first(@, call.tag)]
       IN IF ~IsOk(call.entry)
          THEN /\ returned(c, call, call.entry.res)
               /\ UNCHANGED <<entries_tree, durable>>
          ELSE IF carried <=> call.op = "tag_image"
          THEN /\ returned(c, call, "Ok")
               /\ durable' = flush_mono(entries_tree)
               /\ UNCHANGED entries_tree
          ELSE /\ entries_tree' =
                      insert_entry(entries_tree,
                                   Unwrap(data).encryption_key, updated)
               /\ calls' = [calls EXCEPT ![c].step = "written",
                                         ![c].entry = Ok(updated)]
               /\ UNCHANGED <<durable, ret>>
    /\ UNCHANGED <<build, authenticated,
                   db_root, dirs, files, salt_file, ramVars, clock,
                   issued, histVars>>

\* the index is updated, the lock released (vault.rs flushes) and the call
\* returns
tag_exit(c) ==
    /\ c \in DOMAIN calls /\ calls[c].pc = "locked"
    /\ calls[c].step = "written"
    /\ LET call == calls[c]
           key == Unwrap(data).encryption_key
           index == Unwrap(data).tag_index
       IN /\ data' = Some(VaultData(
                 IF call.op = "tag_image"
                 THEN Put(index, call.tag, bucket(index, call.tag) \cup {call.id})
                 ELSE IF call.tag \in DOMAIN index
                 THEN IF index[call.tag] \ {call.id} = {}
                      THEN Del(index, call.tag)
                      ELSE Put(index, call.tag, index[call.tag] \ {call.id})
                 ELSE index, key))
          /\ returned(c, call, "Ok")
    /\ durable' = flush_mono(entries_tree)
    /\ UNCHANGED <<build, authenticated,
                   db_root, entries_tree, dirs, files, salt_file,
                   metadata, clock, issued, histVars>>

(***************************************************************************)
(* Concurrent tag edits: images are stored and may get the tag "c" while   *)
(* no call is in flight; then up to MaxCalls calls among tag(id, "a"),     *)
(* tag(id, "b") and untag(id, "c") run at once.                            *)
(***************************************************************************)
Edits == {<<"tag_image", <<"a">> >>, <<"tag_image", <<"B">> >>,
          <<"untag_image", <<"c">> >>}

NextEdits ==
    \/ SetupOnce
    \/ unlock("pw-A")
    \/ /\ calls = EmptyMap
       /\ \/ \E id \in FreshIds : store_image(id, "image/png", 1, OneVariant, 0)
          \/ \E id \in issued :
                tag_image(id, <<"c">>) \/ tag_image_mono(id, <<"c">>)
    \/ \E c \in FreeCalls, id \in issued, edit \in Edits :
          tag_enter(c, edit[1], id, edit[2])
    \/ \E c \in Calls : tag_write(c) \/ tag_exit(c)

SpecEdits == Init /\ [][NextEdits]_vars

\* the calls of the kind `op` on id that have returned Ok
Done(op, id) ==
    {c \in DOMAIN calls : /\ calls[c].pc = "done" /\ calls[c].res = "Ok"
                          /\ calls[c].op = op /\ calls[c].id = id}

NextRace ==
    \/ SetupOnce
    \/ unlock("pw-A")
    \/ \E id \in FreshIds : store_image(id, "image/png", 1, TwoVariants, 0)
    \/ \E c \in FreeCalls, id \in issued, variant \in {"Original", "Thumbnail"} :
          retrieve_begin(c, id, variant)
    \/ \E c \in Calls : retrieve_read(c)
    \/ \E c \in FreeCalls, id \in issued : delete_begin(c, id)
    \/ \E c \in Calls :
          \/ \E path \in DOMAIN files : delete_unlink(c, path)
          \/ delete_rmdir(c, TRUE)

SpecRace == Init /\ [][NextRace]_vars

\* the bytes store_image was given for a variant
BytesGiven(variants, variant) ==
    LET i == CHOOSE i \in DOMAIN variants : variants[i][1] = variant
    IN variants[i][2]

\* C23: when delete(id) runs concurrently with retrieve(id, v) for a stored
\* variant v, retrieve returns the bytes originally stored for (id, v), or
\* NotFound, or Corruption, and no other error kind and never other data.
C23_DeleteRacesRetrieve ==
    ret.op = "retrieve_image" =>
        \/ ret.out.res \in {"NotFound", "Corruption"}
        \/ /\ ret.out.res = "Ok"
           /\ ret.out.val[1] = BytesGiven(TwoVariants, ret.variant)

(***************************************************************************)
(* lock while store_image and retrieve_image are past their read of        *)
(* Vault.data: both go on with the copy of the key they took.              *)
(***************************************************************************)
NextHygiene ==
    \/ SetupOnce
    \/ unlock("pw-A")
    \/ lock
    \/ \E c \in FreeCalls, id \in FreshIds :
          store_begin(c, id, "image/png", 1, OneVariant)
    \/ \E c \in Calls : store_mkdir(c) \/ store_write(c, TRUE) \/ store_insert(c)
    \/ \E c \in FreeCalls, id \in KnownIds : retrieve_begin(c, id, "Original")
    \/ \E c \in Calls : retrieve_read(c)

SpecHygiene == Init /\ [][NextHygiene]_vars

\* the calls in flight that hold a copy of the key
KeyHolders == {c \in DOMAIN calls : "key" \in DOMAIN calls[c]}

\* C24: once lock() has returned and until the next successful unlock, no
\* copy of the master key exists in RAM: no store_image or retrieve_image
\* that took the key under the read lock before lock() still holds that copy.
C24_LockHygiene == ~is_unlocked => KeyHolders = {}

(***************************************************************************)
(* rename_tag with a record of the entries partition gone bad on disk.     *)
(***************************************************************************)
\* a byte of a record of the entries tree is overwritten in the sled file
CorruptEntry(id) ==
    /\ id \in DOMAIN entries_tree
    /\ entries_tree' = [entries_tree EXCEPT ![id].mac = "forged"]
    /\ ret' = [op |-> "tamper", res |-> "Ok"]
    /\ UNCHANGED <<build, authenticated,
                   calls, db_root, durable, dirs, files, salt_file,
                   ramVars, clock, issued, histVars>>

CorruptEntries == {id \in DOMAIN entries_tree : entries_tree[id].mac # "valid"}

NextRename ==
    \/ SetupOnce
    \/ unlock("pw-A")
    \/ \E id \in FreshIds : store_image(id, "image/png", 1, OneVariant, 0)
    \/ \E id \in issued : tag_image(id, <<"a">>) \/ tag_image_mono(id, <<"a">>)
    \/ \E new \in {<<"B">>, <<"!">>} :
          rename_tag(<<"a">>, new) \/ rename_tag_mono(<<"a">>, new)
    \/ \E id \in issued :
          Cardinality(CorruptEntries) < MaxTamper /\ CorruptEntry(id)

SpecRename == Init /\ [][NextRename]_vars

\* C25: if rename_tag(old, new) returns an error (for instance because an
\* entry in the old bucket is missing or cannot be decrypted), no entry has
\* been rewritten and the tag index is unchanged.
C25_RenameNoPartialSuccess ==
    [][(ret'.op = "rename_tag" /\ ret'.res # "Ok")
           => UNCHANGED <<entries_tree, data>>]_vars

(***************************************************************************)
(* What is on disk: the metadata in the sled root, the entries tree (as    *)
(* written and as flushed), the files under vault/storage and the salt     *)
(* sidecar.                                                                *)
(***************************************************************************)
\* value is what crypto::encrypt gives under key for some plaintext and aad
Sealed(value, key, aad) == value = encrypt(key, value.pt, aad)

\* C26: in every reachable state every value in the entries partition and
\* every file under the storage directory is the output of the encryption
\* envelope under the master key, and the master key itself is on disk only
\* inside the check blob encrypted under the password-derived wrapping key;
\* what is left unencrypted is the salt, in the sled root and in the sidecar
\* (vault_version and created_at are not modelled).
C26_NoPlaintextAtRest ==
    /\ \A id \in DOMAIN entries_tree :
          Sealed(entries_tree[id], MasterKey, <<id>>)
    /\ \A id \in DOMAIN durable : Sealed(durable[id], MasterKey, <<id>>)
    /\ \A path \in DOMAIN files :
          Sealed(files[path], MasterKey, make_aad(path[1], path[2]))
    /\ db_root.master_key_check # None =>
          /\ Sealed(Unwrap(db_root.master_key_check),
                    derive_key(Unwrap(setup_password),
                               Unwrap(db_root.vault_salt)), << >>)
          /\ salt_file \in {None, db_root.vault_salt}

\* an image is stored, its entry was rewritten by a tag edit, and the vault
\* is unlocked
C26_Witness ==
    /\ is_unlocked
    /\ \E id \in DOMAIN entries_tree :
          /\ EntryOf(id).tags # << >>
          /\ \E path \in DOMAIN files : path[1] = id

(***************************************************************************)
(* list_tags after store, tag, untag, rename_tag and delete.               *)
(***************************************************************************)
NextListTags ==
    \/ SetupOnce
    \/ unlock("pw-A")
    \/ \E id \in FreshIds : store_image(id, "image/png", 1, OneVariant, 0)
    \/ \E id \in issued : delete_image(id, TRUE) \/ delete_image_mono(id, TRUE)
    \/ \E id \in issued, t \in ValidTagInputs :
          \/ tag_image(id, t) \/ tag_image_mono(id, t)
          \/ untag_image(id, t) \/ untag_image_mono(id, t)
    \/ \E old, new \in ValidTagInputs :
          rename_tag(old, new) \/ rename_tag_mono(old, new)
    \/ list_tags

SpecListTags == Init /\ [][NextListTags]_vars

\* C27: list_tags() on an Unlocked vault returns, in ascending
\* lexicographic order and without duplicates, exactly the tags carried by
\* at least one entry, after any sequence of store, tag, untag, rename_tag
\* and delete: a tag whose last carrier was untagged, renamed away or
\* deleted is no longer listed.
C27_ListTags ==
    /\ is_unlocked =>
          /\ IsOk(list_tags_result)
          /\ LET tags == list_tags_result.val
             IN /\ \A i, j \in DOMAIN tags : i < j => str_less(tags[i], tags[j])
                /\ Range(tags) = UNION {Range(e.tags) : e \in Entries}
    /\ (ret.op = "list_tags" /\ is_unlocked) =>
          ret.res = "Ok" /\ ret.val = list_tags_result.val

\* list_tags returned one tag while an image that carries nothing is left:
\* the last carrier of the other tag was untagged, renamed away or deleted
C27_Witness ==
    /\ ret.op = "list_tags" /\ ret.res = "Ok" /\ Len(ret.val) = 1
    /\ is_unlocked
    /\ \E e \in Entries : e.tags = << >>

(***************************************************************************)
(* unlock and list_images over an entries tree with records gone bad.      *)
(***************************************************************************)
NextCorrupt ==
    \/ SetupOnce
    \/ unlock("pw-A")
    \/ lock
    \/ \E id \in FreshIds : store_image(id, "image/png", 1, OneVariant, 0)
    \/ \E id \in issued : tag_image(id, <<"a">>) \/ tag_image_mono(id, <<"a">>)
    \/ \E id \in issued :
          Cardinality(CorruptEntries) < MaxTamper /\ CorruptEntry(id)
    \/ list_images

SpecCorrupt == Init /\ [][NextCorrupt]_vars

\* the records that are as they were written, and what was written
Intact == DOMAIN entries_tree \ CorruptEntries
Written(id) == from_bytes(entries_tree[id].pt)

\* C28: a record in the entries partition that fails to decrypt never makes
\* unlock or list_images fail: unlock with the password of setup succeeds
\* and builds the tag index from exactly the remaining records, and
\* list_images returns exactly the remaining records.
C28_CorruptRecordsSkipped ==
    /\ (ret.op = "unlock" /\ setup_password = Some(ret.password)) =>
          /\ ret.res = "Ok" /\ is_unlocked
          /\ \A t \in {<<"a">>} \cup DOMAIN TagIndex :
                bucket(TagIndex, t) =
                    {id \in Intact : Contains(Written(id).tags, t)}
    /\ (ret.op = "list_images" /\ is_unlocked) =>
          /\ ret.res = "Ok"
          /\ Len(ret.val) = Cardinality(Intact)
          /\ Range(ret.val) = {Written(id) : id \in Intact}

\* unlock succeeded over a tree where a tagged record is corrupt and another
\* tagged record is intact
C28_Witness ==
    /\ ret.op = "unlock" /\ ret.res = "Ok"
    /\ \E id \in CorruptEntries : Written(id).tags # << >>
    /\ TagIndex # EmptyMap

(***************************************************************************)
(* The lifecycle with every password, key and salt, failed sidecar writes, *)
(* restarts, and store, tag and delete in between.                         *)
(***************************************************************************)
NextImmutable ==
    \/ \E pw \in Passwords, mk \in MasterKeys, salt \in Salts,
          write_ok \in BOOLEAN :
          \/ setup(pw, mk, salt, write_ok)
          \/ setup_mono(pw, mk, salt, write_ok)
    \/ \E pw \in Passwords : unlock(pw)
    \/ \E pw \in Passwords : verify_password(pw)
    \/ lock
    \/ shutdown(TRUE)
    \/ Restart
    \/ \E id \in FreshIds : store_image(id, "image/png", 1, OneVariant, 0)
    \/ \E id \in issued : delete_image(id, TRUE) \/ delete_image_mono(id, TRUE)
    \/ \E id \in issued : tag_image(id, <<"a">>) \/ tag_image_mono(id, <<"a">>)

SpecImmutable == Init /\ [][NextImmutable]_vars

\* salt and check are in the metadata store and in RAM
SetUp ==
    /\ db_root.vault_salt # None /\ db_root.master_key_check # None
    /\ metadata.vault_salt = db_root.vault_salt
    /\ metadata.master_key_check = db_root.master_key_check

\* C29: once setup has succeeded, no further setup, unlock, verify_password,
\* lock, shutdown, store, delete, tag operation or process restart changes
\* vault_salt or master_key_check in RAM or in the metadata store; hence
\* unlock accepts exactly the setup password and yields the master key that
\* setup sealed.
C29_SaltAndCheckImmutable ==
    /\ [][SetUp => UNCHANGED <<db_root, metadata>>]_vars
    /\ []((ret.op = "setup" /\ ret.res = "Ok") => SetUp)
    /\ []((ret.op = "unlock" /\ SetUp) =>
             /\ ret.res = "Ok" <=> Some(ret.password) = setup_password
             /\ ret.res = "Ok" =>
                   /\ is_unlocked
                   /\ Unwrap(data).encryption_key = MasterKey)

\* unlock succeeded after a rejected second setup, a restart and a store
C29_Witness ==
    /\ ret.op = "unlock" /\ ret.res = "Ok" /\ SetUp
    /\ entries_tree # EmptyMap
    /\ setup_password = Some("pw-B")

\* C30: when store, tag, untag, rename_tag or delete returns Ok, its change
\* to the entries partition has already been flushed to disk, so that a
\* crash right after the return loses nothing of it: what a restart would
\* find is the entries partition as the call left it.
C30_DurableOnReturn ==
    (/\ ret.op \in {"store_image", "tag_image", "untag_image", "rename_tag",
                    "delete_image"}
     /\ ret.res = "Ok")
        => durable = entries_tree

(***************************************************************************)
(* Error kinds of delete_image and of the tag edits                        *)
(***************************************************************************)
\* C34: delete_image(id) for an id that has no record in the entries
\* partition returns NotFound and leaves the entries partition, the tag
\* index and the blob directory tree unchanged; it does not return Ok.
C34_DeleteAbsentNotFound ==
    [][(/\ is_unlocked
        /\ ret'.op = "delete_image"
        /\ ret'.id \notin DOMAIN entries_tree)
       => /\ ret'.res = "NotFound"
          /\ UNCHANGED <<entries_tree, data, dirs, files>>]_vars

NextTagErrors ==
    \/ SetupOnce
    \/ unlock("pw-A")
    \/ \E id \in FreshIds : store_image(id, "image/png", 1, OneVariant, 0)
    \/ \E id \in issued : delete_image(id, TRUE) \/ delete_image_mono(id, TRUE)
    \/ \E id \in Ids, t \in TagInputs :
          \/ tag_image(id, t) \/ tag_image_mono(id, t)
          \/ untag_image(id, t) \/ untag_image_mono(id, t)

SpecTagErrors == Init /\ [][NextTagErrors]_vars

\* C35: on an Unlocked vault tag(id, raw) and untag(id, raw) return
\* Corruption when normalization rejects raw, and NotFound when raw is valid
\* but id has no entry; in both cases no entry is rewritten and the tag
\* index is unchanged: no bucket, empty or not, is created for the tag.
C35_TagErrors ==
    [][(is_unlocked /\ ret'.op \in {"tag_image", "untag_image"}) =>
          /\ ret'.tag = <<"!">> =>
                ret'.res = "Corruption" /\ UNCHANGED <<entries_tree, data>>
          /\ (ret'.tag # <<"!">> /\ ret'.id \notin DOMAIN entries_tree) =>
                ret'.res = "NotFound" /\ UNCHANGED <<entries_tree, data>>]_vars

\* tag returned NotFound for the id of a deleted image while another image
\* carries the tag
C35_Witness ==
    /\ ret.op = "tag_image" /\ ret.res = "NotFound" /\ is_unlocked
    /\ ret.id \in issued
    /\ normalize_tag(ret.tag).val \in DOMAIN TagIndex

(***************************************************************************)
(* The normal form of tags in storage and in the index                     *)
(***************************************************************************)
IsNormal(tag) == normalize_tag(tag) = Ok(tag)

Count(list, x) == Cardinality({i \in DOMAIN list : list[i] = x})

\* C36: in every reachable state every entry's tags list contains no
\* duplicate and only tags in normal form, and every key of the tag index
\* is in normal form; rename_tag(old, new) applied to an entry that carried
\* both old and new leaves it carrying new exactly once and old not at all.
C36_TagsCanonical ==
    /\ [](/\ \A id \in DOMAIN entries_tree :
                /\ NoDuplicates(Written(id).tags)
                /\ \A t \in Range(Written(id).tags) : IsNormal(t)
          /\ is_unlocked => \A t \in DOMAIN TagIndex : IsNormal(t))
    /\ [][(ret'.op = "rename_tag" /\ ret'.res = "Ok"
             /\ IsOk(normalize_tag(ret'.old)) /\ IsOk(normalize_tag(ret'.new))
             /\ normalize_tag(ret'.old) # normalize_tag(ret'.new)) =>
             \A id \in DOMAIN entries_tree :
                 Contains(Written(id).tags, normalize_tag(ret'.old).val) =>
                    /\ Count(Written(id)'.tags, normalize_tag(ret'.new).val) = 1
                    /\ Count(Written(id)'.tags, normalize_tag(ret'.old).val) = 0
          ]_vars

\* rename_tag renamed the tags of two entries and one of them ends up with
\* the new tag alone
C36_Witness ==
    /\ ret.op = "rename_tag" /\ ret.res = "Ok" /\ ret.val = 2
    /\ is_unlocked
    /\ \E id \in DOMAIN entries_tree :
          Written(id).tags = <<normalize_tag(ret.new).val>>

(***************************************************************************)
(* The index kept by the tag edits against the index unlock builds: the    *)
(* tag edits with lock, unlock and process restarts in between.            *)
(***************************************************************************)
NextRebuild ==
    \/ SetupOnce
    \/ unlock("pw-A")
    \/ lock
    \/ Restart
    \/ \E id \in FreshIds : store_image(id, "image/png", 1, OneVariant, 0)
    \/ \E id \in issued : delete_image(id, TRUE) \/ delete_image_mono(id, TRUE)
    \/ \E id \in issued : tag_image(id, <<"a">>) \/ tag_image_mono(id, <<"a">>)
    \/ \E id \in issued :
          untag_image(id, <<" ", "B">>) \/ untag_image_mono(id, <<" ", "B">>)
    \/ rename_tag(<<"a">>, <<" ", "B">>) \/ rename_tag_mono(<<"a">>, <<" ", "B">>)

SpecRebuild == Init /\ [][NextRebuild]_vars

\* the index unlock would install now
Rebuilt ==
    IF build = "mono" THEN build_tag_index_mono(MasterKey)
    ELSE build_tag_index(entries_decrypted(MasterKey))

\* C37: the incrementally maintained tag index equals the index rebuilt
\* from storage: in any Unlocked state reached by store, tag, untag,
\* rename_tag and delete, the index is the one that lock() followed by
\* unlock(pw), or a restart followed by unlock, installs; hence list_tags()
\* and search_by_tags give the same before and after.
C37_IndexEqualsRebuilt ==
    /\ [](is_unlocked => TagIndex = Rebuilt)
    /\ [][(ret'.op = "unlock" /\ ret'.res = "Ok") =>
             Unwrap(data').tag_index = Rebuilt]_vars

\* unlock after a lock or restart rebuilt an index with a bucket of two ids
\* and a second bucket
C37_Witness ==
    /\ ret.op = "unlock" /\ ret.res = "Ok"
    /\ Cardinality(DOMAIN TagIndex) = 2
    /\ \E t \in DOMAIN TagIndex : Cardinality(TagIndex[t]) = 2

(***************************************************************************)
(* Someone with write access to the sled file moves records of the         *)
(* entries tree around, as long as fewer than MaxTamper records sit under  *)
(* a key they were not written for.                                        *)
(***************************************************************************)
\* the values of two records are exchanged
SwapEntries(p, q) ==
    /\ p \in DOMAIN entries_tree /\ q \in DOMAIN entries_tree /\ p # q
    /\ entries_tree' = [entries_tree EXCEPT ![p] = entries_tree[q],
                                            ![q] = entries_tree[p]]
    /\ ret' = [op |-> "tamper", res |-> "Ok"]
    /\ UNCHANGED <<build, authenticated,
                   calls, db_root, durable, dirs, files, salt_file,
                   ramVars, clock, issued, histVars>>

\* the value of one record is copied under another id
CopyEntry(from, to) ==
    /\ from \in DOMAIN entries_tree /\ from # to
    /\ entries_tree' = Put(entries_tree, to, entries_tree[from])
    /\ ret' = [op |-> "tamper", res |-> "Ok"]
    /\ UNCHANGED <<build, authenticated,
                   calls, db_root, durable, dirs, files, salt_file,
                   ramVars, clock, issued, histVars>>

\* the records that sit under a key they were not written for
Misplaced == {id \in DOMAIN entries_tree : Written(id).id # id}

NextSwapEntries ==
    \/ SetupOnce
    \/ unlock("pw-A")
    \/ lock
    \/ \E id \in FreshIds : store_image(id, "image/png", 1, OneVariant, 0)
    \/ \E id \in issued : tag_image(id, <<"a">>) \/ tag_image_mono(id, <<"a">>)
    \/ \E p, q \in issued : Misplaced = {} /\ SwapEntries(p, q)
    \/ \E from \in issued, to \in Ids :
          Cardinality(Misplaced) < MaxTamper /\ CopyEntry(from, to)
    \/ \E id \in Ids : retrieve_image(id, "Original")
    \/ list_images

SpecSwapEntries == Init /\ [][NextSwapEntries]_vars

\* C39: an encrypted entry record is bound to the key it is stored under:
\* after the values of two records are swapped, or one record's value is
\* copied under another id, get_entry, retrieve, list_images and the scan
\* of unlock fail on or skip the affected records, and no operation returns
\* an entry whose id differs from the key it was read from.
C39_EntryBoundToKey ==
    /\ is_unlocked =>
          /\ \A id \in Misplaced :
                /\ ~IsOk(load_entry(Unwrap(data).encryption_key, id))
                /\ ~IsOk(retrieve_result(id, "Original"))
                /\ \A r \in list_images_result :
                      IsOk(r) /\ \A i \in DOMAIN r.val : r.val[i].id # id
          /\ \A id \in DOMAIN entries_tree :
                IsOk(load_entry(Unwrap(data).encryption_key, id)) =>
                    load_entry(Unwrap(data).encryption_key, id).val.id = id
    /\ (ret.op = "unlock" /\ ret.res = "Ok") =>
          \A t \in DOMAIN TagIndex : TagIndex[t] \cap Misplaced = {}
    /\ (ret.op = "list_images" /\ is_unlocked) =>
          /\ ret.res = "Ok"
          /\ \A i \in DOMAIN ret.val : ret.val[i].id \notin Misplaced
    /\ (ret.op = "retrieve_image" /\ is_unlocked /\ ret.id \in Misplaced) =>
          ret.out.res # "Ok"

\* unlock scanned a tree in which the records of two tagged images had been
\* swapped
C39_Witness ==
    /\ ret.op = "unlock" /\ ret.res = "Ok"
    /\ Cardinality(Misplaced) = 2
    /\ \A id \in Misplaced : Written(id).tags # << >>

\* C40: every authentication failure on decrypting an entry record (here a
\* record read with associated data it was not sealed with) is returned as
\* EncryptionError, and Corruption is returned only for an input shorter
\* than the nonce.
C40_DecryptErrorKinds ==
    (/\ ret.op = "retrieve_image"
     /\ is_unlocked
     /\ ret.id \in DOMAIN entries_tree
     /\ ret.out.res # "Ok")
    => LET record == entries_tree[ret.id] IN
       /\ record.mac = "short" => ret.out.res = "Corruption"
       /\ (record.mac # "short" /\ ret.id \in Misplaced)
             => ret.out.res = "EncryptionError"

(***************************************************************************)
(* unlock in two steps: the password check and the scan of the entries     *)
(* happen before the write lock of Vault.data is taken; the installation   *)
(* of the state is the critical section.                                   *)
(***************************************************************************)
\* the password is checked and the index built from the entries as they are
unlock_scan(c, password) ==
    /\ c \notin DOMAIN calls
    /\ LET master_key == check_password(password)
           call == [op |-> "unlock", pc |-> "scanned", id |-> 0,
                    raw |-> << >>, res |-> "", password |-> password,
                    key |-> << >>, index |-> EmptyMap]
       IN IF ~IsOk(master_key)
          THEN /\ calls' = Put(calls, c, [call EXCEPT !.pc = "done",
                                                      !.res = master_key.res])
               /\ ret' = [op |-> "unlock", password |-> password,
                          res |-> master_key.res]
          ELSE /\ calls' = Put(calls, c,
                      [call EXCEPT
                         !.key = master_key.val,
                         !.index =
                            IF build = "mono"
                            THEN build_tag_index_mono(master_key.val)
                            ELSE build_tag_index(
                                     entries_decrypted(master_key.val))])
               /\ UNCHANGED ret
    /\ UNCHANGED <<build, authenticated,
                   diskVars, ramVars, clock, issued, histVars>>

\* the write lock is taken and the state replaced by the one scanned
unlock_install(c) ==
    /\ c \in DOMAIN calls /\ calls[c].op = "unlock"
    /\ calls[c].pc = "scanned" /\ ~WriteLocked
    /\ data' = Some(VaultData(calls[c].index, calls[c].key))
    /\ calls' = [calls EXCEPT ![c].pc = "done", ![c].res = "Ok"]
    /\ ret' = [op |-> "unlock", password |-> calls[c].password, res |-> "Ok"]
    /\ UNCHANGED <<build, authenticated,
                   diskVars, metadata, clock, issued, histVars>>

NextUnlockRace ==
    \/ SetupOnce
    \/ lock
    \/ \E id \in FreshIds : store_image(id, "image/png", 1, OneVariant, 0)
    \/ \E id \in issued : tag_image(id, <<"a">>) \/ tag_image_mono(id, <<"a">>)
    \/ \E id \in issued :
          untag_image(id, <<"a">>) \/ untag_image_mono(id, <<"a">>)
    \/ rename_tag(<<"a">>, <<"B">>) \/ rename_tag_mono(<<"a">>, <<"B">>)
    \/ \E id \in issued : delete_image(id, TRUE) \/ delete_image_mono(id, TRUE)
    \/ \E c \in FreeCalls : unlock_scan(c, "pw-A")
    \/ \E c \in Calls : unlock_install(c)

SpecUnlockRace == Init /\ [][NextUnlockRace]_vars

\* C32: index-entry equivalence also holds when unlock overlaps other
\* operations: when a tag, untag, rename_tag or delete completes between the
\* scan of an unlock and its installation of the state, the tag index
\* installed afterwards still agrees with the tags of every entry, and no
\* bucket holds an id without an entry.
C32_UnlockOverlap ==
    is_unlocked =>
        /\ \A id \in DOMAIN entries_tree : \A t \in TagsInUse :
              Contains(EntryOf(id).tags, t) <=> id \in bucket(TagIndex, t)
        /\ \A t \in DOMAIN TagIndex : TagIndex[t] \subseteq DOMAIN entries_tree

(***************************************************************************)
(* search_by_tags beside tag edits.  vault/mod.rs runs the whole search    *)
(* inside with_data, under the read lock; vault.rs clones VaultData under  *)
(* the read lock, releases it, and then reads the entries.                 *)
(***************************************************************************)
search_begin(c, include, exclude) ==
    /\ c \notin DOMAIN calls /\ ~WriteLocked
    /\ LET call == [op |-> "search_by_tags", pc |-> "cloned", id |-> 0,
                    raw |-> include, exclude |-> exclude, res |-> "",
                    key |-> << >>, index |-> EmptyMap]
       IN IF build = "split"
          THEN \E r \in search_by_tags_outcomes(include, exclude) :
                  /\ UNCHANGED calls
                  /\ ret' = [op |-> "search_by_tags", include |-> include,
                             exclude |-> exclude, res |-> r.res,
                             val |-> IF IsOk(r) THEN r.val ELSE << >>]
          ELSE IF ~is_unlocked
          THEN /\ UNCHANGED calls
               /\ ret' = [op |-> "search_by_tags", include |-> include,
                          exclude |-> exclude, res |-> "EncryptionError",
                          val |-> << >>]
          ELSE /\ calls' = Put(calls, c,
                      [call EXCEPT !.key = Unwrap(data).encryption_key,
                                   !.index = Unwrap(data).tag_index])
               /\ UNCHANGED ret
    /\ UNCHANGED <<build, authenticated,
                   diskVars, ramVars, clock, issued, histVars>>

\* vault.rs: the buckets of the clone are combined and the entries fetched
search_fetch(c) ==
    /\ c \in DOMAIN calls /\ calls[c].op = "search_by_tags"
    /\ calls[c].pc = "cloned"
    /\ \E r \in search_cloned_mono(calls[c].key, calls[c].index,
                                   calls[c].raw, calls[c].exclude) :
          /\ calls' = Del(calls, c)
          /\ ret' = [op |-> "search_by_tags", include |-> calls[c].raw,
                     exclude |-> calls[c].exclude, res |-> r.res,
                     val |-> IF IsOk(r) THEN r.val ELSE << >>]
    /\ UNCHANGED <<build, authenticated,
                   diskVars, ramVars, clock, issued, histVars>>

SearchQueries == {<< <<<<"a">>>>, << >> >>, << << >>, <<<<"a">>>> >>,
                  << <<<<"B">>>>, <<<<"a">>>> >>}

NextSearchRace ==
    \/ SetupOnce
    \/ unlock("pw-A")
    \/ \E id \in FreshIds : store_image(id, "image/png", 1, OneVariant, 0)
    \/ \E id \in issued : tag_image(id, <<"a">>) \/ tag_image_mono(id, <<"a">>)
    \/ \E id \in issued :
          untag_image(id, <<"a">>) \/ untag_image_mono(id, <<"a">>)
    \/ rename_tag(<<"a">>, <<"B">>) \/ rename_tag_mono(<<"a">>, <<"B">>)
    \/ \E id \in issued : delete_image(id, TRUE) \/ delete_image_mono(id, TRUE)
    \/ \E c \in FreeCalls, q \in SearchQueries :
          calls = EmptyMap /\ search_begin(c, q[1], q[2])
    \/ \E c \in Calls : search_fetch(c)

SpecSearchRace == Init /\ [][NextSearchRace]_vars

\* C33: when search_by_tags(I, X) runs beside tag, untag, rename_tag or
\* delete, its index lookup and its entry loads observe one state: every
\* entry it returns carries, in the tags it is returned with, every tag of
\* I and no tag of X.
C33_SearchConsistent ==
    (ret.op = "search_by_tags" /\ ret.res = "Ok") =>
        \A i \in DOMAIN ret.val :
            /\ \A k \in DOMAIN ret.include :
                  Contains(ret.val[i].tags, normalize_tag(ret.include[k]).val)
            /\ \A k \in DOMAIN ret.exclude :
                  ~Contains(ret.val[i].tags, normalize_tag(ret.exclude[k]).val)

(***************************************************************************)
(* Linked images (vault/mod.rs only).  store_linked_image and              *)
(* remove_linked_image read the parent entry inside with_data, release the *)
(* lock, and insert the entry they read, changed, with no lock held.       *)
(* ImageEntry as types.rs defines it has no linked_images field, so the    *)
(* record written back is the entry as it was read; whether the sub-image  *)
(* is in the list that remove_linked_image searches is an input.           *)
(***************************************************************************)
\* with_data: the copy of the key and the read of the parent entry.  op is
\* "store_linked_image" or "remove_linked_image"
linked_begin(c, op, entry_id, sub_id, variants, found) ==
    /\ build = "split"
    /\ c \notin DOMAIN calls /\ ~WriteLocked
    /\ op = "store_linked_image" => sub_id \notin issued
    /\ LET entry == IF is_unlocked
                    THEN get_entry(Unwrap(data).encryption_key, entry_id)
                    ELSE Err("EncryptionError")
       IN IF ~IsOk(entry)
          THEN /\ ret' = [op |-> op, id |-> entry_id, res |-> entry.res]
               /\ UNCHANGED <<calls, issued>>
          ELSE IF op = "remove_linked_image" /\ ~found
          THEN /\ ret' = [op |-> op, id |-> entry_id, res |-> "NotFound"]
               /\ UNCHANGED <<calls, issued>>
          ELSE /\ calls' = Put(calls, c,
                      [op |-> op,
                       pc |-> IF op = "store_linked_image" THEN "mkdir"
                              ELSE "insert",
                       id |-> entry_id, sub_id |-> sub_id,
                       key |-> Unwrap(data).encryption_key,
                       entry |-> entry.val, variants |-> variants,
                       written |-> 0])
               /\ issued' = IF op = "store_linked_image"
                            THEN issued \cup {sub_id} ELSE issued
               /\ UNCHANGED ret
    /\ UNCHANGED <<build, authenticated, diskVars, ramVars, clock, histVars>>

\* store_linked_image: fs::create_dir_all(vault/storage/<sub_id>)
linked_mkdir(c) ==
    /\ At(c, "store_linked_image", "mkdir")
    /\ dirs' = dirs \cup {calls[c].sub_id}
    /\ calls' = [calls EXCEPT ![c].pc = "write"]
    /\ UNCHANGED <<build, authenticated,
                   db_root, entries_tree, durable, files, salt_file,
                   ramVars, clock, issued, histVars, ret>>

\* store_linked_image: one turn of the loop over the variants
linked_write(c, write_ok) ==
    /\ At(c, "store_linked_image", "write")
    /\ LET call == calls[c]
           k == call.written + 1
       IN IF write_ok
          THEN /\ files' = write_variants(files, call.sub_id, call.key,
                                          call.variants, k)
               /\ calls' = [calls EXCEPT
                              ![c].written = k,
                              ![c].pc = IF k = Len(call.variants)
                                        THEN "insert" ELSE "write"]
               /\ UNCHANGED ret
          ELSE /\ calls' = Del(calls, c)
               /\ ret' = [op |-> call.op, id |-> call.id, res |-> "Io"]
               /\ UNCHANGED files
    /\ UNCHANGED <<build, authenticated,
                   db_root, entries_tree, durable, dirs, salt_file,
                   ramVars, clock, issued, histVars>>

\* db.insert_entry(&key, &entry) with the entry read at the start;
\* remove_linked_image then removes the directory of the sub-image
linked_insert(c) ==
    /\ c \in DOMAIN calls /\ calls[c].pc = "insert"
    /\ calls[c].op \in {"store_linked_image", "remove_linked_image"}
    /\ LET call == calls[c]
           gone == call.op = "remove_linked_image"
       IN /\ entries_tree' = insert_entry(entries_tree, call.key, call.entry)
          /\ dirs' = IF gone THEN dirs \ {call.sub_id} ELSE dirs
          /\ files' = IF gone
                      THEN [path \in {q \in DOMAIN files : q[1] # call.sub_id}
                               |-> files[path]]
                      ELSE files
          /\ ret' = [op |-> call.op, id |-> call.id, res |-> "Ok",
                     val |-> call.entry]
    /\ calls' = Del(calls, c)
    /\ UNCHANGED <<build, authenticated,
                   db_root, durable, salt_file, ramVars, clock, issued,
                   histVars>>

NextLinked ==
    \/ SetupOnce
    \/ unlock("pw-A")
    \/ \E id \in FreshIds : store_image(id, "image/png", 1, OneVariant, 0)
    \/ \E id \in issued : tag_image(id, <<"a">>)
    \/ \E id \in issued : untag_image(id, <<"a">>)
    \/ rename_tag(<<"a">>, <<"B">>)
    \/ \E id \in issued : delete_image(id, TRUE)
    \/ \E c \in FreeCalls, entry_id \in issued, sub_id \in FreshIds :
          /\ calls = EmptyMap
          /\ linked_begin(c, "store_linked_image", entry_id, sub_id,
                          OneVariant, TRUE)
    \/ \E c \in FreeCalls, entry_id, sub_id \in issued, found \in BOOLEAN :
          /\ calls = EmptyMap
          /\ linked_begin(c, "remove_linked_image", entry_id, sub_id, << >>,
                          found)
    \/ \E c \in Calls : linked_mkdir(c) \/ linked_insert(c)
    \/ \E c \in Calls, write_ok \in BOOLEAN : linked_write(c, write_ok)

SpecLinked == Init /\ [][NextLinked]_vars

\* C38: store_linked_image and remove_linked_image never write back a stale
\* entry: a tag, untag or rename_tag on the parent that completed between
\* their read and their write is not lost from the stored entry.tags (the
\* index and the entries keep agreeing), and an entry removed by a delete
\* in between is not inserted again.
C38_NoStaleWriteBack ==
    /\ [](is_unlocked =>
            \A id \in DOMAIN entries_tree : \A t \in TagsInUse :
                Contains(EntryOf(id).tags, t) <=> id \in bucket(TagIndex, t))
    /\ [][(/\ ret'.op \in {"store_linked_image", "remove_linked_image"}
           /\ ret'.res = "Ok"
           /\ calls' # calls)
          => /\ ret'.id \in DOMAIN entries_tree
             /\ from_bytes(entries_tree'[ret'.id].pt).tags
                   = from_bytes(entries_tree[ret'.id].pt).tags]_vars

(***************************************************************************)
(* api.rs: the HTTP adapter.  A session is in `authenticated` when the     *)
(* MemoryStore holds "authenticated" = true for it.  The handlers of       *)
(* /setup, /unlock and /lock are taken with their session call in one      *)
(* step; a request to a protected route goes through auth_middleware in    *)
(* the steps its awaits cut it into, and then calls the core.              *)
(***************************************************************************)
Sessions == {"sA", "sB"}

\* the uploads that are let through to the core
MaxUploads == 1

Routes == {"list_images", "upload_image", "get_image", "delete_image",
           "add_tag", "remove_tag", "list_tags", "rename_tag"}

\* auth_middleware with the session not looked at
is_authenticated_any(session) == TRUE

\* session.get::<bool>("authenticated"), None and errors taken as false
is_authenticated(session) == session \in authenticated

setup_vault(session, password, master_key, salt, write_ok) ==
    /\ \/ vault_setup(password, master_key, salt, write_ok)
       \/ vault_setup_mono(password, master_key, salt, write_ok)
    /\ authenticated' = IF ret'.res = "Ok"
                        THEN authenticated \cup {session}
                        ELSE authenticated

unlock_vault(session, password) ==
    /\ IF is_unlocked
       THEN vault_verify_password(password)
       ELSE vault_unlock(password)
    /\ authenticated' = IF ret'.res = "Ok"
                        THEN authenticated \cup {session}
                        ELSE authenticated

\* session.flush() of the caller's session, then vault.lock()
lock_vault(session) ==
    /\ vault_lock
    /\ authenticated' = authenticated \ {session}

logout(session) ==
    /\ authenticated' = authenticated \ {session}
    /\ ret' = [op |-> "logout", session |-> session, res |-> "Ok"]
    /\ UNCHANGED <<build, calls, diskVars, ramVars, clock, issued, histVars>>

\* auth_middleware up to the await on the vault: the session is read
auth_middleware(c, session, route) ==
    /\ c \notin DOMAIN calls
    /\ IF ~is_authenticated(session)
       THEN /\ ret' = [op |-> "request", session |-> session,
                       route |-> route, status |-> 401, res |-> ""]
            /\ UNCHANGED calls
       ELSE /\ calls' = Put(calls, c,
                   [op |-> "request", pc |-> "session", id |-> 0,
                    session |-> session, route |-> route])
            /\ UNCHANGED ret
    /\ UNCHANGED <<build, authenticated,
                   diskVars, ramVars, clock, issued, histVars>>

\* auth_middleware: state.vault.read() and the test of is_unlocked
auth_middleware_vault(c) ==
    /\ At(c, "request", "session")
    /\ IF ~is_unlocked
       THEN /\ ret' = [op |-> "request", session |-> calls[c].session,
                       route |-> calls[c].route, status |-> 403, res |-> ""]
            /\ calls' = Del(calls, c)
       ELSE /\ calls' = [calls EXCEPT ![c].pc = "next"]
            /\ UNCHANGED ret
    /\ UNCHANGED <<build, authenticated,
                   diskVars, ramVars, clock, issued, histVars>>

\* next.run(request): the handler of the route starts and is about to call
\* the core
next_run(c) ==
    /\ At(c, "request", "next")
    /\ calls[c].route = "upload_image" => Cardinality(issued) < MaxUploads
    /\ ret' = [op |-> "handler", session |-> calls[c].session,
               route |-> calls[c].route, res |-> ""]
    /\ calls' = Del(calls, c)
    /\ UNCHANGED <<build, authenticated,
                   diskVars, ramVars, clock, issued, histVars>>

\* no handler is between its start and its call of the core
Idle == ret.op # "handler"

\* the handler of `route` is about to call the core
Handling(route) == ret.op = "handler" /\ ret.route = route

NextAdapter ==
    \/ \E s \in Sessions :
          Idle /\ setup_vault(s, "pw-A", <<"mk", "K1">>, "s1", TRUE)
    \/ \E s \in Sessions, password \in Passwords :
          Idle /\ unlock_vault(s, password)
    \/ \E s \in Sessions : Idle /\ lock_vault(s)
    \/ \E s \in Sessions : Idle /\ logout(s)
    \/ \E c \in FreeCalls, s \in Sessions, route \in Routes :
          Idle /\ calls = EmptyMap /\ auth_middleware(c, s, route)
    \/ \E c \in Calls : Idle /\ auth_middleware_vault(c)
    \/ \E c \in Calls : Idle /\ next_run(c)
    \/ Handling("list_images") /\ list_images
    \/ \E id \in FreshIds :
          /\ Handling("upload_image")
          /\ store_image(id, "image/png", 1, OneVariant, 0)
    \/ \E id \in Ids : Handling("get_image") /\ retrieve_image(id, "Original")
    \/ \E id \in Ids : Handling("delete_image") /\ delete_image(id, TRUE)
    \/ \E id \in Ids : Handling("delete_image") /\ delete_image_mono(id, TRUE)
    \/ \E id \in Ids : Handling("add_tag") /\ tag_image(id, <<"a">>)
    \/ \E id \in Ids : Handling("add_tag") /\ tag_image_mono(id, <<"a">>)
    \/ \E id \in Ids : Handling("remove_tag") /\ untag_image(id, <<"a">>)
    \/ \E id \in Ids : Handling("remove_tag") /\ untag_image_mono(id, <<"a">>)
    \/ Handling("list_tags") /\ list_tags
    \/ Handling("rename_tag") /\ rename_tag(<<"a">>, <<"B">>)
    \/ Handling("rename_tag") /\ rename_tag_mono(<<"a">>, <<"B">>)

SpecAdapter == Init /\ [][NextAdapter]_vars

====
